---- MODULE Spec2Model ----
(***************************************************************************)
(* YamlAdminServiceStore (libsplinter/src/admin/store/yaml/mod.rs).        *)
(*                                                                         *)
(* The store caches a node table, a circuit table, a proposal table and a  *)
(* service directory behind one mutex, and writes the circuit state and    *)
(* the proposal state to two YAML files.  A BTreeMap is a function whose   *)
(* DOMAIN is its key set; a Vec is a sequence; a file is the sequence of   *)
(* the chunks written to it since it was last created (truncated), and     *)
(* `exists` holds the paths ("circuit", "proposal") that are files.        *)
(* `poisoned` is the poison flag of the state mutex, `lock` its holder     *)
(* ("free" when no thread holds it) and `threads` the position of each     *)
(* thread that calls the store.                                            *)
(***************************************************************************)
EXTENDS Naturals, Sequences, FiniteSets, TLC

VARIABLES state, circuit_file, proposal_file, exists, poisoned, last, nops,
          lock, threads

vars == <<state, circuit_file, proposal_file, exists, poisoned, last, nops,
          lock, threads>>

(***************************************************************************)
(* Bounds.                                                                 *)
(***************************************************************************)
\* Number of facade operations in one run.
MaxOps == 4

(***************************************************************************)
(* BTreeMap and Vec helpers.                                               *)
(***************************************************************************)
EmptyMap == <<>>

contains_key(m, k) == k \in DOMAIN m

insert(m, k, v) == [x \in (DOMAIN m) \cup {k} |-> IF x = k THEN v ELSE m[x]]

remove(m, k) == [x \in (DOMAIN m) \ {k} |-> m[x]]

None == [some |-> FALSE]

Some(v) == [some |-> TRUE, value |-> v]

\* Mutant of get: no key is found.
get_nothing(m, k) == None

get(m, k) == IF k \in DOMAIN m THEN Some(m[k]) ELSE None

\* Ord for String: the strings of the model in ascending order.
StrOrder == <<"a", "b", "c1", "c2", "e1", "e2", "k1", "k2", "n1", "n2", "v1", "v2">>

Rank(s) == CHOOSE i \in DOMAIN StrOrder : StrOrder[i] = s

MinStr(S) == CHOOSE s \in S : \A t \in S : Rank(s) <= Rank(t)

\* The keys of a BTreeMap in iteration (ascending) order.
RECURSIVE SortedKeys(_)
SortedKeys(S) ==
    IF S = {} THEN <<>>
    ELSE LET k == MinStr(S) IN <<k>> \o SortedKeys(S \ {k})

Range(s) == {s[i] : i \in DOMAIN s}

(***************************************************************************)
(* Entity values handed to the store.  The value types and their builders  *)
(* live outside this file; a service roster has distinct service ids and a *)
(* member list distinct node ids, as the builders' callers provide them.   *)
(***************************************************************************)
CircuitIds == {"c1", "c2"}

NodeIds == {"n1", "n2"}

\* Vec<(String, String)>: sorted, empty, and unsorted with a repeated key.
ArgSorted == << <<"k1", "v1">>, <<"k2", "v2">> >>

ArgMessy == << <<"k2", "v1">>, <<"k1", "v1">>, <<"k1", "v2">> >>

MkService(sid, args) ==
    [service_id |-> sid, service_type |-> "scabbard",
     allowed_nodes |-> <<"n1">>, arguments |-> args]

MkNode(id, endpoint) == [id |-> id, endpoints |-> <<endpoint>>]

MkCircuit(id, roster, members) ==
    [id |-> id, roster |-> roster, members |-> members,
     auth |-> "Trust", persistence |-> "Any", durability |-> "NoDurability",
     routes |-> "Any", circuit_management_type |-> "gameroom"]

\* Roster, member list and management type of the circuits offered to
\* add_circuit/update_circuit.
CircuitBodies ==
    { [roster |-> <<MkService("a", ArgSorted)>>, members |-> <<"n1">>,
       circuit_management_type |-> "gameroom"],
      [roster |-> <<MkService("b", <<>>), MkService("a", ArgMessy)>>,
       members |-> <<"n2", "n1">>, circuit_management_type |-> "gameroom"],
      [roster |-> <<>>, members |-> <<"n2">>, circuit_management_type |-> "test"] }

Circuits ==
    {[MkCircuit(id, b.roster, b.members) EXCEPT
          !.circuit_management_type = b.circuit_management_type] :
        id \in CircuitIds, b \in CircuitBodies}

\* The `nodes` argument of add_circuit.
NodeLists ==
    { <<>>,
      <<MkNode("n1", "e1")>>,
      <<MkNode("n2", "e1"), MkNode("n1", "e2")>> }

MkProposedNode(id, endpoint) == [node_id |-> id, endpoints |-> <<endpoint>>]

MkProposedCircuit(id, roster, members) ==
    [circuit_id |-> id, roster |-> roster, members |-> members,
     authorization_type |-> "Trust", persistence |-> "Any",
     durability |-> "NoDurability", routes |-> "Any",
     circuit_management_type |-> "gameroom",
     application_metadata |-> "", comments |-> ""]

\* A ProposedService has the fields of a Service.
ProposedCircuits ==
    { MkProposedCircuit("c1", <<MkService("a", ArgSorted)>>,
                        <<MkProposedNode("n1", "e1")>>),
      [MkProposedCircuit("c2", <<MkService("b", <<>>), MkService("a", ArgMessy)>>,
                         <<MkProposedNode("n2", "e1"), MkProposedNode("n1", "e2")>>)
          EXCEPT !.circuit_management_type = "test"] }

MkProposal(id, circuit) ==
    [proposal_type |-> "Create", circuit_id |-> id, circuit_hash |-> "7ddc",
     circuit |-> circuit, votes |-> <<>>, requester |-> "0283",
     requester_node_id |-> "n1"]

\* tests::new_proposal builds a proposal whose circuit_id differs from the
\* circuit_id of its proposed circuit, so both shapes are offered.
Proposals == {MkProposal(id, pc) : id \in CircuitIds, pc \in ProposedCircuits}

\* ServiceId::new(service_id, circuit_id)
ServiceId(service_id, circuit_id) == <<service_id, circuit_id>>

(***************************************************************************)
(* Conversions out of the proposal types (admin/store/mod.rs, outside this *)
(* file): field by field, the circuit taking the proposed circuit's id and *)
(* the ids of its members.                                                 *)
(***************************************************************************)
ServiceFromProposed(service) ==
    [service_id |-> service.service_id, service_type |-> service.service_type,
     allowed_nodes |-> service.allowed_nodes, arguments |-> service.arguments]

NodeFromProposed(node) == [id |-> node.node_id, endpoints |-> node.endpoints]

CircuitFromProposed(circuit) ==
    [id |-> circuit.circuit_id,
     roster |-> [i \in DOMAIN circuit.roster |-> ServiceFromProposed(circuit.roster[i])],
     members |-> [i \in DOMAIN circuit.members |-> circuit.members[i].node_id],
     auth |-> circuit.authorization_type, persistence |-> circuit.persistence,
     durability |-> circuit.durability, routes |-> circuit.routes,
     circuit_management_type |-> circuit.circuit_management_type]

(***************************************************************************)
(* Schema adapter: YamlService keeps the arguments in a BTreeMap, Service  *)
(* in a Vec of pairs.                                                      *)
(***************************************************************************)
\* Vec<(String, String)> collected into a BTreeMap: a later pair replaces an
\* earlier pair with the same key.
CollectMap(args) ==
    [k \in {args[i][1] : i \in DOMAIN args} |->
        LET i == CHOOSE i \in DOMAIN args :
                    /\ args[i][1] = k
                    /\ \A j \in DOMAIN args : args[j][1] = k => j <= i
        IN args[i][2]]

\* A BTreeMap collected into a Vec of pairs, in ascending key order.
CollectVec(m) == LET ks == SortedKeys(DOMAIN m) IN [i \in DOMAIN ks |-> <<ks[i], m[ks[i]]>>]

YamlServiceFromService(service) ==
    [service_id |-> service.service_id, service_type |-> service.service_type,
     allowed_nodes |-> service.allowed_nodes,
     arguments |-> CollectMap(service.arguments)]

ServiceFromYamlService(service) ==
    [service_id |-> service.service_id, service_type |-> service.service_type,
     allowed_nodes |-> service.allowed_nodes,
     arguments |-> CollectVec(service.arguments)]

YamlCircuitFromCircuit(circuit) ==
    [circuit EXCEPT !.roster = [i \in DOMAIN @ |-> YamlServiceFromService(@[i])]]

CircuitFromYamlCircuit(circuit) ==
    [circuit EXCEPT !.roster = [i \in DOMAIN @ |-> ServiceFromYamlService(@[i])]]

YamlCircuitStateFromCircuitState(cs) ==
    [nodes |-> cs.nodes,
     circuits |-> [id \in DOMAIN cs.circuits |-> YamlCircuitFromCircuit(cs.circuits[id])]]

CircuitStateFromYamlCircuitState(ys) ==
    [nodes |-> ys.nodes,
     circuits |-> [id \in DOMAIN ys.circuits |-> CircuitFromYamlCircuit(ys.circuits[id])]]

(***************************************************************************)
(* File persistence.                                                       *)
(***************************************************************************)
\* Mutant of File_create: the file is opened without truncating it.
File_open_append(file) == file

\* File::create: the file is created, or truncated when it exists.
File_create(file) == <<>>

\* Write::write_all
write_all(file, output) == Append(file, output)

\* writeln!(file)
writeln(file) == Append(file, "\n")

\* serde_yaml::to_vec: the YAML document of a value.
to_vec(value) == [yaml |-> value]

write_circuit_state(st, file) ==
    LET circuit_output == to_vec(YamlCircuitStateFromCircuitState(st.circuit_state))
    IN writeln(write_all(File_create(file), circuit_output))

write_proposal_state(st, file) ==
    LET proposal_output == to_vec(st.proposal_state)
    IN writeln(write_all(File_create(file), proposal_output))

\* YamlState::default()
YamlStateDefault ==
    [circuit_state |-> [nodes |-> EmptyMap, circuits |-> EmptyMap],
     proposal_state |-> [proposals |-> EmptyMap],
     service_directory |-> EmptyMap]

(***************************************************************************)
(* The in-memory mutation of each facade operation: the block that runs    *)
(* with the state lock held.  Each yields the result and the new state.    *)
(***************************************************************************)
Ok(st) == [result |-> "Ok", state |-> st]

OperationError(st) == [result |-> "OperationError", state |-> st]

\* for service in roster: service_directory.insert(ServiceId(..), service.clone())
RECURSIVE insert_services(_, _, _)
insert_services(directory, roster, circuit_id) ==
    IF roster = <<>> THEN directory
    ELSE LET service == Head(roster)
         IN insert_services(
                insert(directory, ServiceId(service.service_id, circuit_id), service),
                Tail(roster), circuit_id)

\* for service in roster: service_directory.remove(ServiceId(..))
RECURSIVE remove_services(_, _, _)
remove_services(directory, roster, circuit_id) ==
    IF roster = <<>> THEN directory
    ELSE remove_services(
             remove(directory, ServiceId(Head(roster).service_id, circuit_id)),
             Tail(roster), circuit_id)

\* Mutant of insert_new_nodes: a stored node is replaced.
RECURSIVE insert_nodes_overwriting(_, _)
insert_nodes_overwriting(table, nodes) ==
    IF nodes = <<>> THEN table
    ELSE insert_nodes_overwriting(insert(table, Head(nodes).id, Head(nodes)),
                                  Tail(nodes))

\* for node in nodes: insert unless the node id is already a key
RECURSIVE insert_new_nodes(_, _)
insert_new_nodes(table, nodes) ==
    IF nodes = <<>> THEN table
    ELSE LET node == Head(nodes)
         IN insert_new_nodes(
                IF ~contains_key(table, node.id) THEN insert(table, node.id, node)
                ELSE table,
                Tail(nodes))

add_proposal_locked(st, proposal) ==
    IF contains_key(st.proposal_state.proposals, proposal.circuit_id)
    THEN OperationError(st)
    ELSE Ok([st EXCEPT !.proposal_state.proposals =
                           insert(@, proposal.circuit_id, proposal)])

\* Mutant of update_proposal_locked: an absent proposal is inserted.
update_proposal_upsert(st, proposal) ==
    Ok([st EXCEPT !.proposal_state.proposals =
                      insert(@, proposal.circuit_id, proposal)])

update_proposal_locked(st, proposal) ==
    IF contains_key(st.proposal_state.proposals, proposal.circuit_id)
    THEN Ok([st EXCEPT !.proposal_state.proposals =
                           insert(@, proposal.circuit_id, proposal)])
    ELSE OperationError(st)

\* Mutant of remove_proposal_locked: the circuit of that id is removed too.
remove_proposal_and_circuit(st, proposal_id) ==
    IF contains_key(st.proposal_state.proposals, proposal_id)
    THEN Ok([st EXCEPT !.proposal_state.proposals = remove(@, proposal_id),
                       !.circuit_state.circuits = remove(@, proposal_id)])
    ELSE OperationError(st)

remove_proposal_locked(st, proposal_id) ==
    IF contains_key(st.proposal_state.proposals, proposal_id)
    THEN Ok([st EXCEPT !.proposal_state.proposals = remove(@, proposal_id)])
    ELSE OperationError(st)

\* Mutant of add_circuit_locked: a stored circuit is replaced.
add_circuit_upsert(st, circuit, nodes) ==
    Ok([st EXCEPT
           !.service_directory = insert_services(@, circuit.roster, circuit.id),
           !.circuit_state.nodes = insert_new_nodes(@, nodes),
           !.circuit_state.circuits = insert(@, circuit.id, circuit)])

\* Mutant of add_circuit_locked: the service directory is not filled.
add_circuit_without_services(st, circuit, nodes) ==
    IF contains_key(st.circuit_state.circuits, circuit.id)
    THEN OperationError(st)
    ELSE Ok([st EXCEPT
                !.circuit_state.nodes = insert_new_nodes(@, nodes),
                !.circuit_state.circuits = insert(@, circuit.id, circuit)])

add_circuit_locked(st, circuit, nodes) ==
    IF contains_key(st.circuit_state.circuits, circuit.id)
    THEN OperationError(st)
    ELSE Ok([st EXCEPT
                !.service_directory = insert_services(@, circuit.roster, circuit.id),
                !.circuit_state.nodes = insert_new_nodes(@, nodes),
                !.circuit_state.circuits = insert(@, circuit.id, circuit)])

\* Mutant of update_circuit_locked: the stored roster is kept.
update_circuit_keeping_roster(st, circuit) ==
    IF contains_key(st.circuit_state.circuits, circuit.id)
    THEN Ok([st EXCEPT !.circuit_state.circuits =
                insert(@, circuit.id,
                       [circuit EXCEPT !.roster =
                           st.circuit_state.circuits[circuit.id].roster])])
    ELSE OperationError(st)

update_circuit_locked(st, circuit) ==
    IF contains_key(st.circuit_state.circuits, circuit.id)
    THEN Ok([st EXCEPT !.circuit_state.circuits = insert(@, circuit.id, circuit)])
    ELSE OperationError(st)

\* Mutant of remove_circuit_locked: the nodes of the members are removed too.
remove_circuit_with_members(st, circuit_id) ==
    IF contains_key(st.circuit_state.circuits, circuit_id)
    THEN LET circuit == st.circuit_state.circuits[circuit_id]
         IN Ok([st EXCEPT
                   !.circuit_state.circuits = remove(@, circuit_id),
                   !.circuit_state.nodes =
                       [id \in DOMAIN @ \ Range(circuit.members) |-> @[id]],
                   !.service_directory =
                       remove_services(@, circuit.roster, circuit_id)])
    ELSE OperationError(st)

remove_circuit_locked(st, circuit_id) ==
    IF contains_key(st.circuit_state.circuits, circuit_id)
    THEN LET circuit == st.circuit_state.circuits[circuit_id]
         IN Ok([st EXCEPT
                   !.circuit_state.circuits = remove(@, circuit_id),
                   !.service_directory =
                       remove_services(@, circuit.roster, circuit_id)])
    ELSE OperationError(st)

\* Mutant of upgrade_proposal_to_circuit_locked: the services are keyed by
\* the converted circuit's id.
upgrade_services_under_circuit_id(st, circuit_id) ==
    IF contains_key(st.proposal_state.proposals, circuit_id)
    THEN LET proposal == st.proposal_state.proposals[circuit_id]
             nodes == proposal.circuit.members
             services == proposal.circuit.roster
             circuit == CircuitFromProposed(proposal.circuit)
         IN Ok([st EXCEPT
                   !.proposal_state.proposals = remove(@, circuit_id),
                   !.circuit_state.circuits = insert(@, circuit.id, circuit),
                   !.service_directory =
                       insert_services(@, [i \in DOMAIN services |->
                                              ServiceFromProposed(services[i])],
                                       circuit.id),
                   !.circuit_state.nodes =
                       insert_new_nodes(@, [i \in DOMAIN nodes |-> NodeFromProposed(nodes[i])])])
    ELSE OperationError(st)

\* Mutant of upgrade_proposal_to_circuit_locked: without the else branch, an
\* absent proposal is no error.
upgrade_without_else(st, circuit_id) ==
    IF contains_key(st.proposal_state.proposals, circuit_id)
    THEN LET proposal == st.proposal_state.proposals[circuit_id]
             nodes == proposal.circuit.members
             services == proposal.circuit.roster
             circuit == CircuitFromProposed(proposal.circuit)
         IN Ok([st EXCEPT
                   !.proposal_state.proposals = remove(@, circuit_id),
                   !.circuit_state.circuits = insert(@, circuit.id, circuit),
                   !.service_directory =
                       insert_services(@, [i \in DOMAIN services |->
                                              ServiceFromProposed(services[i])],
                                       circuit_id),
                   !.circuit_state.nodes =
                       insert_new_nodes(@, [i \in DOMAIN nodes |-> NodeFromProposed(nodes[i])])])
    ELSE Ok(st)

\* Mutant of upgrade_proposal_to_circuit_locked: the circuit is stored under
\* the id of the proposal.
upgrade_circuit_under_proposal_id(st, circuit_id) ==
    IF contains_key(st.proposal_state.proposals, circuit_id)
    THEN LET proposal == st.proposal_state.proposals[circuit_id]
             nodes == proposal.circuit.members
             services == proposal.circuit.roster
             circuit == CircuitFromProposed(proposal.circuit)
         IN Ok([st EXCEPT
                   !.proposal_state.proposals = remove(@, circuit_id),
                   !.circuit_state.circuits = insert(@, circuit_id, circuit),
                   !.service_directory =
                       insert_services(@, [i \in DOMAIN services |->
                                              ServiceFromProposed(services[i])],
                                       circuit_id),
                   !.circuit_state.nodes =
                       insert_new_nodes(@, [i \in DOMAIN nodes |-> NodeFromProposed(nodes[i])])])
    ELSE OperationError(st)

\* Mutant of upgrade_proposal_to_circuit_locked: a stored circuit of the
\* proposed circuit's id is an error.
upgrade_checking_circuit(st, circuit_id) ==
    IF contains_key(st.proposal_state.proposals, circuit_id)
       /\ ~contains_key(st.circuit_state.circuits,
                        st.proposal_state.proposals[circuit_id].circuit.circuit_id)
    THEN LET proposal == st.proposal_state.proposals[circuit_id]
             nodes == proposal.circuit.members
             services == proposal.circuit.roster
             circuit == CircuitFromProposed(proposal.circuit)
         IN Ok([st EXCEPT
                   !.proposal_state.proposals = remove(@, circuit_id),
                   !.circuit_state.circuits = insert(@, circuit.id, circuit),
                   !.service_directory =
                       insert_services(@, [i \in DOMAIN services |->
                                              ServiceFromProposed(services[i])],
                                       circuit_id),
                   !.circuit_state.nodes =
                       insert_new_nodes(@, [i \in DOMAIN nodes |-> NodeFromProposed(nodes[i])])])
    ELSE OperationError(st)

upgrade_proposal_to_circuit_locked(st, circuit_id) ==
    IF contains_key(st.proposal_state.proposals, circuit_id)
    THEN LET proposal == st.proposal_state.proposals[circuit_id]
             nodes == proposal.circuit.members
             services == proposal.circuit.roster
             circuit == CircuitFromProposed(proposal.circuit)
         IN Ok([st EXCEPT
                   !.proposal_state.proposals = remove(@, circuit_id),
                   !.circuit_state.circuits = insert(@, circuit.id, circuit),
                   !.service_directory =
                       insert_services(@, [i \in DOMAIN services |->
                                              ServiceFromProposed(services[i])],
                                       circuit_id),
                   !.circuit_state.nodes =
                       insert_new_nodes(@, [i \in DOMAIN nodes |-> NodeFromProposed(nodes[i])])])
    ELSE OperationError(st)

(***************************************************************************)
(* Queries.                                                                *)
(***************************************************************************)
fetch_proposal(st, proposal_id) == get(st.proposal_state.proposals, proposal_id)

fetch_circuit(st, circuit_id) == get(st.circuit_state.circuits, circuit_id)

fetch_node(st, node_id) == get(st.circuit_state.nodes, node_id)

fetch_service(st, service_id) == get(st.service_directory, service_id)

(***************************************************************************)
(* CircuitPredicate: filtering by management type and by members.          *)
(***************************************************************************)
ManagementTypeEq(management_type) ==
    [kind |-> "ManagementTypeEq", value |-> <<management_type>>]

MembersInclude(node_ids) == [kind |-> "MembersInclude", value |-> node_ids]

apply_to_circuit(predicate, circuit) ==
    IF predicate.kind = "ManagementTypeEq"
    THEN circuit.circuit_management_type = predicate.value[1]
    ELSE \A i \in DOMAIN predicate.value :
            \E j \in DOMAIN circuit.members : circuit.members[j] = predicate.value[i]

apply_to_proposals(predicate, proposal) ==
    IF predicate.kind = "ManagementTypeEq"
    THEN proposal.circuit.circuit_management_type = predicate.value[1]
    ELSE \A i \in DOMAIN predicate.value :
            \E j \in DOMAIN proposal.circuit.members :
                proposal.circuit.members[j].node_id = predicate.value[i]

\* The predicates offered to list_circuits and list_proposals.
Predicates ==
    <<ManagementTypeEq("gameroom"), ManagementTypeEq("test"),
      MembersInclude(<<"n1">>), MembersInclude(<<"n2">>)>>

\* &[CircuitPredicate]: none, one, or two different predicates.
PredicateLists ==
    {<<>>} \cup {<<Predicates[i]>> : i \in DOMAIN Predicates}
           \cup {<<Predicates[ij[1]], Predicates[ij[2]]>> :
                    ij \in {p \in (DOMAIN Predicates) \X (DOMAIN Predicates) : p[1] < p[2]}}

\* Mutant of Values: the values in descending key order.
ValuesDescending(m) ==
    LET ks == SortedKeys(DOMAIN m) IN [i \in DOMAIN ks |-> m[ks[Len(ks) + 1 - i]]]

\* map.iter().map(|(_, v)| v.clone()).collect(): the values in key order
Values(m) == LET ks == SortedKeys(DOMAIN m) IN [i \in DOMAIN ks |-> m[ks[i]]]

\* Mutant of list_proposals: an entry is kept when any predicate accepts it.
list_proposals_any(st, predicates) ==
    SelectSeq(Values(st.proposal_state.proposals),
              LAMBDA proposal : predicates = <<>> \/
                  \E i \in DOMAIN predicates : apply_to_proposals(predicates[i], proposal))

list_proposals(st, predicates) ==
    SelectSeq(Values(st.proposal_state.proposals),
              LAMBDA proposal :
                  \A i \in DOMAIN predicates : apply_to_proposals(predicates[i], proposal))

list_circuits(st, predicates) ==
    SelectSeq(Values(st.circuit_state.circuits),
              LAMBDA circuit :
                  \A i \in DOMAIN predicates : apply_to_circuit(predicates[i], circuit))

\* Mutant of list_nodes: the nodes in descending key order.
list_nodes_descending(st) == ValuesDescending(st.circuit_state.nodes)

list_nodes(st) == Values(st.circuit_state.nodes)

\* Mutant of list_services: the roster from its last service to its first.
list_services_reversed(st, circuit_id) ==
    IF ~contains_key(st.circuit_state.circuits, circuit_id)
    THEN [result |-> "OperationError", value |-> <<>>]
    ELSE LET roster == st.circuit_state.circuits[circuit_id].roster
         IN [result |-> "Ok",
             value |-> [i \in DOMAIN roster |-> roster[Len(roster) + 1 - i]]]

\* An unknown circuit is an OperationError; else the roster, in roster order.
list_services(st, circuit_id) ==
    IF ~contains_key(st.circuit_state.circuits, circuit_id)
    THEN [result |-> "OperationError", value |-> <<>>]
    ELSE [result |-> "Ok", value |-> st.circuit_state.circuits[circuit_id].roster]

\* Mutant of write_state: only the circuit file is written.
write_state_circuit_only(st, files) ==
    [circuit |-> write_circuit_state(st, files.circuit), proposal |-> files.proposal]

\* write_state: the circuit file, then the proposal file.
write_state(st, files) ==
    [circuit |-> write_circuit_state(st, files.circuit),
     proposal |-> write_proposal_state(st, files.proposal)]

(***************************************************************************)
(* Loading.  serde_yaml::from_reader yields the document of a file that    *)
(* holds exactly one document with the fields of the expected type, with   *)
(* or without the closing newline; an empty file, a file with a second     *)
(* document and a document of another type are errors.                     *)
(***************************************************************************)
Parsed(value) == [result |-> "Ok", value |-> value]

ParseError == [result |-> "YamlAdminStoreError"]

from_reader(file, field) ==
    IF Len(file) \in {1, 2} /\ field \in DOMAIN file[1].yaml
    THEN Parsed(file[1].yaml)
    ELSE ParseError

Loaded(st) == [result |-> "Ok", state |-> st]

LoadFailed(st) == [result |-> "YamlAdminStoreError", state |-> st]

\* Mutant of load_services: the service directory is not rebuilt.
load_services_skipped(directory, circuits, circuit_ids) == directory

\* for (circuit_id, circuit) in circuits: for service in circuit.roster:
\*     service_directory.insert(ServiceId(service.service_id, circuit_id), ..)
RECURSIVE load_services(_, _, _)
load_services(directory, circuits, circuit_ids) ==
    IF circuit_ids = <<>> THEN directory
    ELSE LET circuit_id == Head(circuit_ids)
         IN load_services(
                insert_services(directory, circuits[circuit_id].roster, circuit_id),
                circuits, Tail(circuit_ids))

read_circuit_state(st, file) ==
    LET yaml_state_circuits == from_reader(file, "circuits")
        yaml_state == CircuitStateFromYamlCircuitState(yaml_state_circuits.value)
    IN IF yaml_state_circuits.result # "Ok" THEN LoadFailed(st)
       ELSE Loaded([st EXCEPT
                !.service_directory =
                    load_services(@, yaml_state.circuits,
                                  SortedKeys(DOMAIN yaml_state.circuits)),
                !.circuit_state = yaml_state])

\* Mutant of read_proposal_state: the parsed document is not assigned.
read_proposal_state_unassigned(st, file) ==
    IF from_reader(file, "proposals").result # "Ok" THEN LoadFailed(st) ELSE Loaded(st)

read_proposal_state(st, file) ==
    LET proposals_state == from_reader(file, "proposals")
    IN IF proposals_state.result # "Ok" THEN LoadFailed(st)
       ELSE Loaded([st EXCEPT !.proposal_state = proposals_state.value])

\* Mutant of read_state: the circuit state is assigned before the proposal
\* file is parsed.
read_state_assigning_early(st, files) ==
    LET yaml_state_circuits == from_reader(files.circuit, "circuits")
        yaml_state == CircuitStateFromYamlCircuitState(yaml_state_circuits.value)
        proposals_state == from_reader(files.proposal, "proposals")
    IN IF yaml_state_circuits.result # "Ok" THEN LoadFailed(st)
       ELSE LET early == [st EXCEPT
                             !.service_directory =
                                 load_services(@, yaml_state.circuits,
                                               SortedKeys(DOMAIN yaml_state.circuits)),
                             !.circuit_state = yaml_state]
            IN IF proposals_state.result # "Ok" THEN LoadFailed(early)
               ELSE Loaded([early EXCEPT !.proposal_state = proposals_state.value])

\* Both files are parsed before the first table is assigned.
read_state(st, files) ==
    LET yaml_state_circuits == from_reader(files.circuit, "circuits")
        yaml_state == CircuitStateFromYamlCircuitState(yaml_state_circuits.value)
        proposals_state == from_reader(files.proposal, "proposals")
    IN IF yaml_state_circuits.result # "Ok" \/ proposals_state.result # "Ok"
       THEN LoadFailed(st)
       ELSE Loaded([st EXCEPT
                !.service_directory =
                    load_services(@, yaml_state.circuits,
                                  SortedKeys(DOMAIN yaml_state.circuits)),
                !.circuit_state = yaml_state,
                !.proposal_state = proposals_state.value])

(***************************************************************************)
(* YamlAdminServiceStore::new on a disk: the two files' content and the    *)
(* set of paths that are files.  It yields the result, the state of the    *)
(* store, the disk afterwards and the files it wrote.                      *)
(***************************************************************************)
Constructed(result, st, circuit, proposal, paths, wrote) ==
    [result |-> result, state |-> st, circuit |-> circuit, proposal |-> proposal,
     exists |-> paths, wrote |-> wrote]

new(disk) ==
    LET store == YamlStateDefault
    IN CASE {"circuit", "proposal"} \subseteq disk.exists ->
              LET r == read_state(store, disk)
              IN Constructed(r.result, r.state, disk.circuit, disk.proposal,
                             disk.exists, {})
         [] "circuit" \in disk.exists ->
              LET r == read_circuit_state(store, disk.circuit)
              IN IF r.result # "Ok"
                 THEN Constructed(r.result, r.state, disk.circuit, disk.proposal,
                                  disk.exists, {})
                 ELSE Constructed("Ok", r.state, disk.circuit,
                                  write_proposal_state(r.state, disk.proposal),
                                  disk.exists \cup {"proposal"}, {"proposal"})
         [] "proposal" \in disk.exists ->
              LET circuit == write_circuit_state(store, disk.circuit)
                  r == read_proposal_state(store, disk.proposal)
              IN Constructed(r.result, r.state, circuit, disk.proposal,
                             disk.exists \cup {"circuit"}, {"circuit"})
         [] OTHER ->
              LET w == write_state(store, disk)
              IN Constructed("Ok", store, w.circuit, w.proposal,
                             {"circuit", "proposal"}, {"circuit", "proposal"})

(***************************************************************************)
(* A write whose file I/O may fail.  `io` names the outcome: "ok", or the  *)
(* call that returns an error: "create" (the file is left as it was),      *)
(* "write_all" (the file has been truncated; what was written of the       *)
(* document is no document) or "writeln" (the document is in the file, the *)
(* newline is not).  The error is a YamlAdminStoreError.                   *)
(***************************************************************************)
IoOutcomes == {"ok", "create", "write_all", "writeln"}

NoFaults == {"ok"}

Written(file) == [result |-> "Ok", file |-> file, touched |-> TRUE]

WriteFailed(file, touched) ==
    [result |-> "YamlAdminStoreError", file |-> file, touched |-> touched]

write_circuit_state_io(st, file, io) ==
    LET circuit_output == to_vec(YamlCircuitStateFromCircuitState(st.circuit_state))
    IN CASE io = "create" -> WriteFailed(file, FALSE)
         [] io = "write_all" -> WriteFailed(File_create(file), TRUE)
         [] io = "writeln" ->
                WriteFailed(write_all(File_create(file), circuit_output), TRUE)
         [] OTHER -> Written(write_circuit_state(st, file))

write_proposal_state_io(st, file, io) ==
    LET proposal_output == to_vec(st.proposal_state)
    IN CASE io = "create" -> WriteFailed(file, FALSE)
         [] io = "write_all" -> WriteFailed(File_create(file), TRUE)
         [] io = "writeln" ->
                WriteFailed(write_all(File_create(file), proposal_output), TRUE)
         [] OTHER -> Written(write_proposal_state(st, file))

\* The outcomes of the two writes of write_state: the proposal file is not
\* reached when the circuit file's write fails.
WriteStateOutcomes(outcomes) ==
    {<<"ok", io>> : io \in outcomes} \cup {<<io, "ok">> : io \in outcomes \ {"ok"}}

write_state_io(st, files, ios) ==
    LET c == write_circuit_state_io(st, files.circuit, ios[1])
        p == write_proposal_state_io(st, files.proposal, ios[2])
    IN IF c.result # "Ok"
       THEN [result |-> c.result, circuit |-> c.file, proposal |-> files.proposal,
             touched |-> IF c.touched THEN {"circuit"} ELSE {}]
       ELSE [result |-> p.result, circuit |-> c.file, proposal |-> p.file,
             touched |-> IF p.touched THEN {"circuit", "proposal"} ELSE {"circuit"}]

\* Mutant of StorageErrorOf: a failed write is reported as an OperationError.
OperationErrorOf(result) == IF result = "Ok" THEN "Ok" ELSE "OperationError"

\* map_err of a write's result into the facade's error type
StorageErrorOf(result) == IF result = "Ok" THEN "Ok" ELSE "StorageError"

(***************************************************************************)
(* The facade operations, one action each: the locked mutation, then, when *)
(* it succeeded, the write of the affected file(s).  `last` records the    *)
(* call that has just returned: its name, the id it addressed, its         *)
(* argument(s), its result and the files it wrote.                         *)
(***************************************************************************)
Returned(op, id, arg, nodes, result, wrote) ==
    [op |-> op, id |-> id, arg |-> arg, nodes |-> nodes, result |-> result,
     wrote |-> wrote]

\* self.state.lock() returns a PoisonError: the call returns a StorageError
\* before it has read or changed anything.
LockPoisoned(op, id, arg, nodes) ==
    /\ poisoned
    /\ last' = Returned(op, id, arg, nodes, "StorageError", {})
    /\ nops' = nops + 1
    /\ UNCHANGED <<state, circuit_file, proposal_file, exists, poisoned, lock, threads>>

\* Mutant of ProposalDone: a failed write restores the table.
ProposalDone_rolled_back(op, id, arg, r, io) ==
    \/ LockPoisoned(op, id, arg, <<>>)
    \/ /\ ~poisoned
       /\ IF r.result = "Ok"
          THEN LET w == write_proposal_state_io(r.state, proposal_file, io)
               IN /\ state' = IF w.result = "Ok" THEN r.state ELSE state
                  /\ proposal_file' = w.file
                  /\ exists' = IF w.touched THEN exists \cup {"proposal"} ELSE exists
                  /\ last' = Returned(op, id, arg, <<>>, StorageErrorOf(w.result),
                                      IF w.touched THEN {"proposal"} ELSE {})
          ELSE /\ UNCHANGED <<state, proposal_file, exists>>
               /\ last' = Returned(op, id, arg, <<>>, r.result, {})
       /\ UNCHANGED <<circuit_file, poisoned, lock, threads>>
       /\ nops' = nops + 1

\* A proposal operation returns: only the proposal file is written.
ProposalDone(op, id, arg, r, io) ==
    \/ LockPoisoned(op, id, arg, <<>>)
    \/ /\ ~poisoned
       /\ state' = r.state
       /\ IF r.result = "Ok"
          THEN LET w == write_proposal_state_io(r.state, proposal_file, io)
               IN /\ proposal_file' = w.file
                  /\ exists' = IF w.touched THEN exists \cup {"proposal"} ELSE exists
                  /\ last' = Returned(op, id, arg, <<>>, StorageErrorOf(w.result),
                                      IF w.touched THEN {"proposal"} ELSE {})
          ELSE /\ UNCHANGED <<proposal_file, exists>>
               /\ last' = Returned(op, id, arg, <<>>, r.result, {})
       /\ UNCHANGED <<circuit_file, poisoned, lock, threads>>
       /\ nops' = nops + 1

\* Mutant of CircuitDone: the proposal file is written as well.
CircuitDone_writing_both(op, id, arg, nodes, r, io) ==
    \/ LockPoisoned(op, id, arg, nodes)
    \/ /\ ~poisoned
       /\ state' = r.state
       /\ IF r.result = "Ok"
          THEN LET w == write_state_io(r.state, [circuit |-> circuit_file,
                                                proposal |-> proposal_file],
                                      <<io, "ok">>)
               IN /\ circuit_file' = w.circuit
                  /\ proposal_file' = w.proposal
                  /\ exists' = exists \cup w.touched
                  /\ last' = Returned(op, id, arg, nodes, StorageErrorOf(w.result),
                                      w.touched)
          ELSE /\ UNCHANGED <<circuit_file, proposal_file, exists>>
               /\ last' = Returned(op, id, arg, nodes, r.result, {})
       /\ UNCHANGED <<poisoned, lock, threads>>
       /\ nops' = nops + 1

\* A circuit operation returns: only the circuit file is written.
CircuitDone(op, id, arg, nodes, r, io) ==
    \/ LockPoisoned(op, id, arg, nodes)
    \/ /\ ~poisoned
       /\ state' = r.state
       /\ IF r.result = "Ok"
          THEN LET w == write_circuit_state_io(r.state, circuit_file, io)
               IN /\ circuit_file' = w.file
                  /\ exists' = IF w.touched THEN exists \cup {"circuit"} ELSE exists
                  /\ last' = Returned(op, id, arg, nodes, StorageErrorOf(w.result),
                                      IF w.touched THEN {"circuit"} ELSE {})
          ELSE /\ UNCHANGED <<circuit_file, exists>>
               /\ last' = Returned(op, id, arg, nodes, r.result, {})
       /\ UNCHANGED <<proposal_file, poisoned, lock, threads>>
       /\ nops' = nops + 1

\* Each operation is given the outcomes its file I/O may have.
add_proposal_io(outcomes) ==
    /\ nops < MaxOps
    /\ \E proposal \in Proposals, io \in outcomes :
          ProposalDone("add_proposal", proposal.circuit_id, proposal,
                       add_proposal_locked(state, proposal), io)

update_proposal_io(outcomes) ==
    /\ nops < MaxOps
    /\ \E proposal \in Proposals, io \in outcomes :
          ProposalDone("update_proposal", proposal.circuit_id, proposal,
                       update_proposal_locked(state, proposal), io)

remove_proposal_io(outcomes) ==
    /\ nops < MaxOps
    /\ \E proposal_id \in CircuitIds, io \in outcomes :
          ProposalDone("remove_proposal", proposal_id, proposal_id,
                       remove_proposal_locked(state, proposal_id), io)

add_circuit_io(outcomes) ==
    /\ nops < MaxOps
    /\ \E circuit \in Circuits, nodes \in NodeLists, io \in outcomes :
          CircuitDone("add_circuit", circuit.id, circuit, nodes,
                      add_circuit_locked(state, circuit, nodes), io)

update_circuit_io(outcomes) ==
    /\ nops < MaxOps
    /\ \E circuit \in Circuits, io \in outcomes :
          CircuitDone("update_circuit", circuit.id, circuit, <<>>,
                      update_circuit_locked(state, circuit), io)

remove_circuit_io(outcomes) ==
    /\ nops < MaxOps
    /\ \E circuit_id \in CircuitIds, io \in outcomes :
          CircuitDone("remove_circuit", circuit_id, circuit_id, <<>>,
                      remove_circuit_locked(state, circuit_id), io)

upgrade_proposal_to_circuit_io(outcomes) ==
    /\ nops < MaxOps
    /\ \E circuit_id \in CircuitIds, ios \in WriteStateOutcomes(outcomes) :
          LET r == upgrade_proposal_to_circuit_locked(state, circuit_id)
              w == write_state_io(r.state, [circuit |-> circuit_file,
                                            proposal |-> proposal_file], ios)
              \* the proposal consumed by this call, when there is one
              arg == IF contains_key(state.proposal_state.proposals, circuit_id)
                     THEN state.proposal_state.proposals[circuit_id]
                     ELSE circuit_id
          IN \/ LockPoisoned("upgrade_proposal_to_circuit", circuit_id, arg, <<>>)
             \/ /\ ~poisoned
                /\ state' = r.state
                /\ IF r.result = "Ok"
                   THEN /\ circuit_file' = w.circuit
                        /\ proposal_file' = w.proposal
                        /\ exists' = exists \cup w.touched
                        /\ last' = Returned("upgrade_proposal_to_circuit", circuit_id,
                                            arg, <<>>, StorageErrorOf(w.result),
                                            w.touched)
                   ELSE /\ UNCHANGED <<circuit_file, proposal_file, exists>>
                        /\ last' = Returned("upgrade_proposal_to_circuit", circuit_id,
                                            arg, <<>>, r.result, {})
                /\ UNCHANGED <<poisoned, lock, threads>>
                /\ nops' = nops + 1

\* The operations in a run whose file I/O succeeds.
add_proposal == add_proposal_io(NoFaults)

update_proposal == update_proposal_io(NoFaults)

remove_proposal == remove_proposal_io(NoFaults)

add_circuit == add_circuit_io(NoFaults)

update_circuit == update_circuit_io(NoFaults)

remove_circuit == remove_circuit_io(NoFaults)

upgrade_proposal_to_circuit == upgrade_proposal_to_circuit_io(NoFaults)

(***************************************************************************)
(* The read operations, one action each.  A read changes no variable but   *)
(* `last`, which also records the value the call returned.                 *)
(***************************************************************************)
Answered(op, id, arg, result, value) ==
    [op |-> op, id |-> id, arg |-> arg, nodes |-> <<>>, result |-> result,
     wrote |-> {}, value |-> value]

\* Mutant of ReadDone: a read answers from the tables of a poisoned lock.
ReadDone_ignoring_poison(op, id, arg, result, value) ==
    /\ nops < MaxOps
    /\ last' = Answered(op, id, arg, result, value)
    /\ nops' = nops + 1
    /\ UNCHANGED <<state, circuit_file, proposal_file, exists, poisoned, lock, threads>>

\* A read returns: a StorageError when lock() returns a PoisonError.
ReadDone(op, id, arg, result, value) ==
    /\ nops < MaxOps
    /\ last' = IF poisoned THEN Answered(op, id, arg, "StorageError", <<>>)
               ELSE Answered(op, id, arg, result, value)
    /\ nops' = nops + 1
    /\ UNCHANGED <<state, circuit_file, proposal_file, exists, poisoned, lock, threads>>

fetch_proposal_call ==
    \E proposal_id \in CircuitIds :
        ReadDone("fetch_proposal", proposal_id, proposal_id, "Ok",
                 fetch_proposal(state, proposal_id))

\* list_proposals with one of the given predicate lists
list_proposals_over(predicate_lists) ==
    \E predicates \in predicate_lists :
        ReadDone("list_proposals", "-", predicates, "Ok",
                 list_proposals(state, predicates))

list_proposals_call == list_proposals_over(PredicateLists)

fetch_circuit_call ==
    \E circuit_id \in CircuitIds :
        ReadDone("fetch_circuit", circuit_id, circuit_id, "Ok",
                 fetch_circuit(state, circuit_id))

\* list_circuits with one of the given predicate lists
list_circuits_over(predicate_lists) ==
    \E predicates \in predicate_lists :
        ReadDone("list_circuits", "-", predicates, "Ok",
                 list_circuits(state, predicates))

list_circuits_call == list_circuits_over(PredicateLists)

fetch_node_call ==
    \E node_id \in NodeIds :
        ReadDone("fetch_node", node_id, node_id, "Ok", fetch_node(state, node_id))

list_nodes_call == ReadDone("list_nodes", "-", "-", "Ok", list_nodes(state))

\* The service ids asked for: the ids of the services in the inputs.
ServiceIds == {"a", "b"}

fetch_service_call ==
    \E service_id \in ServiceIds, circuit_id \in CircuitIds :
        ReadDone("fetch_service", ServiceId(service_id, circuit_id), circuit_id, "Ok",
                 fetch_service(state, ServiceId(service_id, circuit_id)))

list_services_call ==
    \E circuit_id \in CircuitIds :
        LET r == list_services(state, circuit_id)
        IN ReadDone("list_services", circuit_id, circuit_id, r.result, r.value)

\* Mutant of caller_changes_circuit: the caller holds the stored circuit.
caller_changes_stored_circuit ==
    /\ last.op = "fetch_circuit"
    /\ last.result = "Ok"
    /\ last.value.some
    /\ last' = [last EXCEPT !.op = "caller_changes_circuit",
                            !.value = Some([last.value.value EXCEPT !.members = <<>>])]
    /\ state' = [state EXCEPT !.circuit_state.circuits[last.id].members = <<>>]
    /\ UNCHANGED <<circuit_file, proposal_file, exists, poisoned, nops, lock, threads>>

\* The caller of fetch_circuit changes the circuit it was given: the value
\* is a clone that the caller owns.
caller_changes_circuit ==
    /\ last.op = "fetch_circuit"
    /\ last.result = "Ok"
    /\ last.value.some
    /\ last' = [last EXCEPT !.op = "caller_changes_circuit",
                            !.value = Some([last.value.value EXCEPT !.members = <<>>])]
    /\ UNCHANGED <<state, circuit_file, proposal_file, exists, poisoned, nops, lock, threads>>

\* A thread panics while it holds the state lock: the lock is poisoned.
poison ==
    /\ ~poisoned
    /\ poisoned' = TRUE
    /\ UNCHANGED <<state, circuit_file, proposal_file, exists, last, nops, lock, threads>>

\* The threads that share the store through its Arc<Mutex<YamlState>>.
Threads == {"t1", "t2"}

\* A thread that is in no call.
Idle == [pc |-> "idle", op |-> "-", id |-> "-", arg |-> None, nodes |-> <<>>]

\* Nobody holds the state lock and every thread is outside the store.  In
\* the specifications whose calls are one action each the calls come from
\* one caller, one after the other, and this stays so.
Quiescent == lock = "free" /\ threads = [t \in Threads |-> Idle]

\* YamlAdminServiceStore::new on two paths where no file exists: the default
\* state, written to both files.
Init ==
    /\ state = YamlStateDefault
    /\ circuit_file = write_circuit_state(YamlStateDefault, <<>>)
    /\ proposal_file = write_proposal_state(YamlStateDefault, <<>>)
    /\ exists = {"circuit", "proposal"}
    /\ poisoned = FALSE
    /\ last = Returned("new", "-", "-", <<>>, "Ok", {"circuit", "proposal"})
    /\ nops = 0
    /\ Quiescent

Next ==
    \/ add_proposal
    \/ update_proposal
    \/ remove_proposal
    \/ add_circuit
    \/ update_circuit
    \/ remove_circuit
    \/ upgrade_proposal_to_circuit

Spec == Init /\ [][Next]_vars

(***************************************************************************)
(* Construction on disks left by an earlier store, and restarts: a new     *)
(* store constructed on the two paths of the running one.                  *)
(***************************************************************************)
MaxNewOps == 3

\* States an earlier store may have written to the disk.
StoredStates ==
    {YamlStateDefault} \cup
    {add_proposal_locked(add_circuit_locked(YamlStateDefault, circuit, nodes).state,
                         proposal).state :
        circuit \in {c \in Circuits : c.id = "c1" /\ c.roster # <<>>},
        nodes \in {n \in NodeLists : Len(n) = 2},
        proposal \in {p \in Proposals : p.circuit_id = "c2" /\ p.circuit.circuit_id = "c2"}}

\* A path that is no file has no content.
DiskOf(st, paths) ==
    [circuit |-> IF "circuit" \in paths THEN write_circuit_state(st, <<>>) ELSE <<>>,
     proposal |-> IF "proposal" \in paths THEN write_proposal_state(st, <<>>) ELSE <<>>,
     exists |-> paths]

\* The disks after the first hold a file truncated by a failed write: the
\* circuit file, the proposal file next to a circuit file that can be
\* loaded, or the proposal file alone.
Disks ==
    {DiskOf(st, paths) : st \in StoredStates, paths \in SUBSET {"circuit", "proposal"}}
    \cup {[DiskOf(YamlStateDefault, {"circuit", "proposal"}) EXCEPT !.circuit = <<>>]}
    \cup {[DiskOf(st, {"circuit", "proposal"}) EXCEPT !.proposal = <<>>] :
             st \in StoredStates}
    \cup {[DiskOf(YamlStateDefault, {"proposal"}) EXCEPT !.proposal = <<>>]}

\* new() returned a store
StoreConstructed == last.result # "YamlAdminStoreError"

InitNew ==
    \E disk \in Disks :
        LET r == new(disk)
        IN /\ state = r.state
           /\ circuit_file = r.circuit
           /\ proposal_file = r.proposal
           /\ exists = r.exists
           /\ poisoned = FALSE
           /\ last = Returned("new", "-", [disk |-> disk, before |-> YamlStateDefault],
                              <<>>, r.result, r.wrote)
           /\ nops = 0
           /\ Quiescent

\* The store is dropped and a new one constructed on the same two paths.
restart ==
    /\ nops < MaxNewOps
    /\ StoreConstructed
    /\ LET disk == [circuit |-> circuit_file, proposal |-> proposal_file,
                    exists |-> exists]
           r == new(disk)
       IN /\ state' = r.state
          /\ circuit_file' = r.circuit
          /\ proposal_file' = r.proposal
          /\ exists' = r.exists
          /\ poisoned' = FALSE
          /\ last' = Returned("restart", "-", [disk |-> disk, before |-> state],
                              <<>>, r.result, r.wrote)
          /\ nops' = nops + 1
          /\ UNCHANGED <<lock, threads>>

\* A call on the store that new() returned.
Running == nops < MaxNewOps /\ StoreConstructed

NextNew ==
    \/ Running /\ add_proposal
    \/ Running /\ update_proposal
    \/ Running /\ remove_proposal
    \/ Running /\ add_circuit
    \/ Running /\ update_circuit
    \/ Running /\ remove_circuit
    \/ Running /\ upgrade_proposal_to_circuit
    \/ restart

SpecNew == InitNew /\ [][NextNew]_vars

(***************************************************************************)
(* Runs in which file I/O fails and the state lock is poisoned.            *)
(***************************************************************************)
MaxFaultOps == 2

NextFaults ==
    \/ nops < MaxFaultOps /\ add_proposal_io(IoOutcomes)
    \/ nops < MaxFaultOps /\ update_proposal_io(IoOutcomes)
    \/ nops < MaxFaultOps /\ remove_proposal_io(IoOutcomes)
    \/ nops < MaxFaultOps /\ add_circuit_io(IoOutcomes)
    \/ nops < MaxFaultOps /\ update_circuit_io(IoOutcomes)
    \/ nops < MaxFaultOps /\ remove_circuit_io(IoOutcomes)
    \/ nops < MaxFaultOps /\ upgrade_proposal_to_circuit_io(IoOutcomes)
    \/ nops < MaxFaultOps /\ fetch_proposal_call
    \/ nops < MaxFaultOps /\ list_proposals_over({<<>>})
    \/ nops < MaxFaultOps /\ fetch_circuit_call
    \/ nops < MaxFaultOps /\ list_circuits_over({<<>>})
    \/ nops < MaxFaultOps /\ fetch_node_call
    \/ nops < MaxFaultOps /\ list_nodes_call
    \/ nops < MaxFaultOps /\ fetch_service_call
    \/ nops < MaxFaultOps /\ list_services_call
    \/ poison

SpecFaults == Init /\ [][NextFaults]_vars

(***************************************************************************)
(* Runs of mutations and reads, the lists filtered by predicates.          *)
(***************************************************************************)
MaxReadOps == 3

NextReads ==
    \/ nops < MaxReadOps /\ add_proposal
    \/ nops < MaxReadOps /\ update_proposal
    \/ nops < MaxReadOps /\ remove_proposal
    \/ nops < MaxReadOps /\ add_circuit
    \/ nops < MaxReadOps /\ update_circuit
    \/ nops < MaxReadOps /\ remove_circuit
    \/ nops < MaxReadOps /\ upgrade_proposal_to_circuit
    \/ nops < MaxReadOps /\ fetch_proposal_call
    \/ nops < MaxReadOps /\ list_proposals_call
    \/ nops < MaxReadOps /\ fetch_circuit_call
    \/ nops < MaxReadOps /\ list_circuits_call
    \/ nops < MaxReadOps /\ fetch_node_call
    \/ nops < MaxReadOps /\ list_nodes_call
    \/ nops < MaxReadOps /\ fetch_service_call
    \/ nops < MaxReadOps /\ list_services_call
    \/ caller_changes_circuit

SpecReads == Init /\ [][NextReads]_vars

(***************************************************************************)
(* Properties.                                                             *)
(***************************************************************************)
Tables == <<state.circuit_state.nodes, state.circuit_state.circuits,
            state.proposal_state.proposals, state.service_directory>>

Succeeded(op) == last.op = op /\ last.result = "Ok"

\* C1: add_circuit with a circuit id that is stored, and add_proposal with a
\* proposal id that is stored, return an OperationError and leave the four
\* tables and both files as they were.
C1_AddDuplicateRejected ==
    [][ ( \/ /\ last'.op = "add_circuit"
             /\ last'.id \in DOMAIN state.circuit_state.circuits
          \/ /\ last'.op = "add_proposal"
             /\ last'.id \in DOMAIN state.proposal_state.proposals )
        => /\ last'.result = "OperationError"
           /\ last'.wrote = {}
           /\ UNCHANGED <<Tables, circuit_file, proposal_file>> ]_vars

\* C1 witness: add_circuit has returned an error for a stored circuit that
\* differs from the one offered.
C1_Witness ==
    /\ last.op = "add_circuit"
    /\ last.result = "OperationError"
    /\ last.id \in DOMAIN state.circuit_state.circuits
    /\ state.circuit_state.circuits[last.id] # last.arg

\* C2: update_circuit, remove_circuit, update_proposal and remove_proposal
\* with an id that is not stored return an OperationError, insert nothing,
\* and leave the four tables and both files as they were.
C2_AbsentIdRejected ==
    [][ ( \/ /\ last'.op \in {"update_circuit", "remove_circuit"}
             /\ last'.id \notin DOMAIN state.circuit_state.circuits
          \/ /\ last'.op \in {"update_proposal", "remove_proposal"}
             /\ last'.id \notin DOMAIN state.proposal_state.proposals )
        => /\ last'.result = "OperationError"
           /\ last'.wrote = {}
           /\ UNCHANGED <<Tables, circuit_file, proposal_file>> ]_vars

\* C2 witness: update_proposal has returned an error for an id that is not
\* stored, while another proposal is.
C2_Witness ==
    /\ last.op = "update_proposal"
    /\ last.result = "OperationError"
    /\ last.id \notin DOMAIN state.proposal_state.proposals
    /\ state.proposal_state.proposals # EmptyMap

\* C3: after upgrade_proposal_to_circuit(id) has returned success, the
\* proposal table no longer holds id and the circuit table holds, under id,
\* a circuit whose id is id.
C3_UpgradeMovesProposalToCircuit ==
    Succeeded("upgrade_proposal_to_circuit") =>
        /\ fetch_proposal(state, last.id) = None
        /\ fetch_circuit(state, last.id).some
        /\ fetch_circuit(state, last.id).value.id = last.id

\* C4: after a successful upgrade_proposal_to_circuit(id), every member of
\* the proposed circuit has a node record and every service of the proposed
\* roster is fetched by (service_id, id).
C4_UpgradeInsertsNodesAndServices ==
    Succeeded("upgrade_proposal_to_circuit") =>
        LET proposed == last.arg.circuit
        IN /\ \A i \in DOMAIN proposed.members :
                 fetch_node(state, proposed.members[i].node_id).some
           /\ \A i \in DOMAIN proposed.roster :
                 fetch_service(state,
                               ServiceId(proposed.roster[i].service_id, last.id))
                     = Some(ServiceFromProposed(proposed.roster[i]))

\* C4 witness: an upgrade has succeeded for a proposal whose proposed circuit
\* carries another id, two services and two members.
C4_Witness ==
    /\ Succeeded("upgrade_proposal_to_circuit")
    /\ last.arg.circuit.circuit_id # last.id
    /\ Len(last.arg.circuit.roster) = 2
    /\ Len(last.arg.circuit.members) = 2

\* C5: upgrade_proposal_to_circuit(id) with no proposal stored under id
\* returns an OperationError, changes no table and writes neither file.
C5_UpgradeAbsentRejected ==
    [][ ( /\ last'.op = "upgrade_proposal_to_circuit"
          /\ last'.id \notin DOMAIN state.proposal_state.proposals )
        => /\ last'.result = "OperationError"
           /\ last'.wrote = {}
           /\ UNCHANGED <<Tables, circuit_file, proposal_file>> ]_vars

\* C5 witness: an upgrade has been refused while the store holds a circuit
\* under that id and a proposal under another id.
C5_Witness ==
    /\ last.op = "upgrade_proposal_to_circuit"
    /\ last.result = "OperationError"
    /\ last.id \in DOMAIN state.circuit_state.circuits
    /\ state.proposal_state.proposals # EmptyMap

\* C6: after remove_circuit(id) has returned success, the service directory
\* holds no key whose circuit id is id.
C6_RemoveCircuitCascades ==
    Succeeded("remove_circuit") =>
        \A key \in DOMAIN state.service_directory : key[2] # last.id

\* C7: after add_circuit(c, nodes) has returned success, every service of
\* c.roster is fetched by (service_id, c.id) and fetch_circuit(c.id) is c.
C7_AddCircuitServicesFetchable ==
    Succeeded("add_circuit") =>
        /\ \A i \in DOMAIN last.arg.roster :
              fetch_service(state, ServiceId(last.arg.roster[i].service_id, last.arg.id))
                  = Some(last.arg.roster[i])
        /\ fetch_circuit(state, last.arg.id) = Some(last.arg)

\* C7 witness: add_circuit has succeeded with a roster of two services.
C7_Witness ==
    /\ Succeeded("add_circuit")
    /\ Len(last.arg.roster) = 2

\* C8: the service directory mirrors the rosters of the stored circuits: a
\* key (s, c) maps to a service exactly if circuit c is stored and its roster
\* holds that service under service id s.
C8_DirectoryMirrorsRosters ==
    LET circuits == state.circuit_state.circuits
        services == {state.service_directory[k] : k \in DOMAIN state.service_directory}
                    \cup UNION {Range(circuits[c].roster) : c \in DOMAIN circuits}
    IN \A s \in {"a", "b"}, c \in CircuitIds, v \in services :
          (fetch_service(state, ServiceId(s, c)) = Some(v))
          <=> /\ c \in DOMAIN circuits
              /\ v \in Range(circuits[c].roster)
              /\ v.service_id = s

\* C9: every member id of every stored circuit is a key of the node table.
C9_MembersHaveNodes ==
    \A c \in DOMAIN state.circuit_state.circuits :
        \A i \in DOMAIN state.circuit_state.circuits[c].members :
            state.circuit_state.circuits[c].members[i]
                \in DOMAIN state.circuit_state.nodes

\* The arguments of an on-disk service: a mapping whose keys are the keys of
\* the in-memory pairs, each with the value of the last pair of that key.
OnDiskArguments(m, args) ==
    /\ DOMAIN m = {args[i][1] : i \in DOMAIN args}
    /\ \A i \in DOMAIN args :
          (\A j \in DOMAIN args : j > i => args[j][1] # args[i][1])
              => m[args[i][1]] = args[i][2]

\* A YAML document holding the node and circuit tables in on-disk shape.
OnDiskCircuitDocument(doc, cs) ==
    /\ doc.yaml.nodes = cs.nodes
    /\ DOMAIN doc.yaml.circuits = DOMAIN cs.circuits
    /\ \A id \in DOMAIN cs.circuits :
          LET y == doc.yaml.circuits[id]
              c == cs.circuits[id]
          IN /\ [y EXCEPT !.roster = <<>>] = [c EXCEPT !.roster = <<>>]
             /\ DOMAIN y.roster = DOMAIN c.roster
             /\ \A i \in DOMAIN c.roster :
                   /\ y.roster[i].service_id = c.roster[i].service_id
                   /\ y.roster[i].service_type = c.roster[i].service_type
                   /\ y.roster[i].allowed_nodes = c.roster[i].allowed_nodes
                   /\ OnDiskArguments(y.roster[i].arguments, c.roster[i].arguments)

\* C10: after a successful add_proposal, update_proposal or remove_proposal
\* the proposal file is the document of the proposal table and one newline;
\* after a successful add_circuit, update_circuit or remove_circuit the
\* circuit file is the document of the node and circuit tables in on-disk
\* shape and one newline; nothing else is in the file.
C10_FileIsCurrentDocument ==
    /\ ( \E op \in {"add_proposal", "update_proposal", "remove_proposal"} :
             Succeeded(op) )
       => /\ Len(proposal_file) = 2
          /\ proposal_file[1] = [yaml |-> [proposals |-> state.proposal_state.proposals]]
          /\ proposal_file[2] = "\n"
    /\ ( \E op \in {"add_circuit", "update_circuit", "remove_circuit"} :
             Succeeded(op) )
       => /\ Len(circuit_file) = 2
          /\ OnDiskCircuitDocument(circuit_file[1], state.circuit_state)
          /\ circuit_file[2] = "\n"

\* C10 witness: update_circuit has succeeded on a store that holds two node
\* records, and the stored circuit has a service with unsorted, repeated
\* argument keys.
C10_Witness ==
    /\ Succeeded("update_circuit")
    /\ Cardinality(DOMAIN state.circuit_state.nodes) = 2
    /\ \E i \in DOMAIN last.arg.roster : last.arg.roster[i].arguments = ArgMessy

(***************************************************************************)
(* Construction and restart.                                               *)
(***************************************************************************)
\* C11: a store constructed on the two paths of a store whose operations
\* all succeeded in writing answers fetch_circuit, fetch_node and
\* fetch_proposal, for every id, as the old store did.
C11_RestartPreservesFetches ==
    (last.op = "restart" /\ last.result = "Ok") =>
        /\ \A id \in CircuitIds :
              /\ fetch_circuit(state, id) = fetch_circuit(last.arg.before, id)
              /\ fetch_proposal(state, id) = fetch_proposal(last.arg.before, id)
        /\ \A id \in NodeIds :
              fetch_node(state, id) = fetch_node(last.arg.before, id)

\* The documents of the empty state.
EmptyCircuitFile == <<[yaml |-> [nodes |-> <<>>, circuits |-> <<>>]], "\n">>

EmptyProposalFile == <<[yaml |-> [proposals |-> <<>>]], "\n">>

\* new() has returned a store, on the first construction or on a restart.
NewSucceeded == last.op \in {"new", "restart"} /\ last.result = "Ok"

\* C12: when neither path is a file, new() creates both files, each holding
\* the document of the empty state, and the store's node, circuit, proposal
\* and service tables are empty.
C12_NewOnEmptyDiskWritesEmptyState ==
    (last.op = "new" /\ last.arg.disk.exists = {}) =>
        /\ last.result = "Ok"
        /\ exists = {"circuit", "proposal"}
        /\ circuit_file = EmptyCircuitFile
        /\ proposal_file = EmptyProposalFile
        /\ DOMAIN state.circuit_state.nodes = {}
        /\ DOMAIN state.circuit_state.circuits = {}
        /\ DOMAIN state.proposal_state.proposals = {}
        /\ DOMAIN state.service_directory = {}

\* C12 witness: new() has returned on a disk without either file and has
\* written both.
C12_Witness ==
    /\ last.op = "new"
    /\ last.arg.disk.exists = {}
    /\ last.wrote = {"circuit", "proposal"}

\* C13: when exactly one path is a file, new() leaves that file as it was,
\* loads its content, and creates the other file with the document of the
\* empty state; after every successful construction both paths are files.
C13_NewCompletesMissingFile ==
    /\ NewSucceeded => exists = {"circuit", "proposal"}
    /\ (NewSucceeded /\ last.arg.disk.exists = {"circuit"}) =>
          /\ circuit_file = last.arg.disk.circuit
          /\ OnDiskCircuitDocument(last.arg.disk.circuit[1], state.circuit_state)
          /\ last.wrote = {"proposal"}
          /\ proposal_file = EmptyProposalFile
          /\ DOMAIN state.proposal_state.proposals = {}
    /\ (NewSucceeded /\ last.arg.disk.exists = {"proposal"}) =>
          /\ proposal_file = last.arg.disk.proposal
          /\ state.proposal_state = last.arg.disk.proposal[1].yaml
          /\ last.wrote = {"circuit"}
          /\ circuit_file = EmptyCircuitFile
          /\ DOMAIN state.circuit_state.circuits = {}
          /\ DOMAIN state.circuit_state.nodes = {}

\* C13 witness: new() has returned a store on a disk whose only file was a
\* proposal file holding a proposal.
C13_Witness ==
    /\ NewSucceeded
    /\ last.arg.disk.exists = {"proposal"}
    /\ DOMAIN last.arg.disk.proposal[1].yaml.proposals # {}
    /\ DOMAIN state.proposal_state.proposals # {}

\* C14: when both paths are files, new() writes neither, every circuit and
\* proposal of the files is returned by fetch_circuit and fetch_proposal, and
\* for every loaded circuit c and service s of its roster
\* fetch_service((s.service_id, c.id)) returns s.
C14_NewLoadsBothFiles ==
    (NewSucceeded /\ last.arg.disk.exists = {"circuit", "proposal"}) =>
        /\ last.wrote = {}
        /\ circuit_file = last.arg.disk.circuit
        /\ proposal_file = last.arg.disk.proposal
        /\ OnDiskCircuitDocument(last.arg.disk.circuit[1], state.circuit_state)
        /\ \A id \in DOMAIN last.arg.disk.proposal[1].yaml.proposals :
              fetch_proposal(state, id) =
                  Some(last.arg.disk.proposal[1].yaml.proposals[id])
        /\ \A id \in DOMAIN last.arg.disk.circuit[1].yaml.circuits :
              /\ fetch_circuit(state, id).some
              /\ LET c == fetch_circuit(state, id).value
                 IN \A i \in DOMAIN c.roster :
                       fetch_service(state, ServiceId(c.roster[i].service_id, c.id))
                           = Some(c.roster[i])

\* C14 witness: a store has been constructed on two files, the circuit file
\* holding a circuit with two services, the proposal file a proposal.
C14_Witness ==
    /\ NewSucceeded
    /\ last.arg.disk.exists = {"circuit", "proposal"}
    /\ \E id \in DOMAIN state.circuit_state.circuits :
          Len(state.circuit_state.circuits[id].roster) = 2
    /\ DOMAIN state.proposal_state.proposals # {}
    /\ Cardinality(DOMAIN state.service_directory) >= 2

(***************************************************************************)
(* Failing file I/O and the poisoned lock.                                 *)
(***************************************************************************)
MutatingOps ==
    {"add_proposal", "update_proposal", "remove_proposal", "add_circuit",
     "update_circuit", "remove_circuit", "upgrade_proposal_to_circuit"}

ReadOps ==
    {"fetch_proposal", "list_proposals", "fetch_circuit", "list_circuits",
     "fetch_node", "list_nodes", "fetch_service", "list_services"}

\* The file is as it was, or it does not hold a complete document and newline.
NotRewritten(file_before, file_after) ==
    file_after = file_before \/ Len(file_after) < 2

C16_PoisonedLockFailsEveryCall ==
    [][ poisoned =>
          /\ poisoned'
          /\ Tables' = Tables
          /\ circuit_file' = circuit_file
          /\ proposal_file' = proposal_file
          /\ exists' = exists
          /\ nops' = nops + 1 =>
                /\ last'.op \in MutatingOps \cup ReadOps
                /\ last'.result = "StorageError"
                /\ last'.wrote = {}
      ]_vars

\* C16 witness: the lock of a store that holds a circuit is poisoned, and
\* fetch_circuit for the stored circuit has returned a StorageError.
C16_Witness ==
    /\ poisoned
    /\ last.op = "fetch_circuit"
    /\ last.result = "StorageError"
    /\ contains_key(state.circuit_state.circuits, last.id)

\* The precondition of the call `l` does not hold in the tables `st`.
PreconditionViolated(l, st) ==
    \/ l.op = "add_proposal" /\ l.id \in DOMAIN st.proposal_state.proposals
    \/ l.op \in {"update_proposal", "remove_proposal", "upgrade_proposal_to_circuit"}
          /\ l.id \notin DOMAIN st.proposal_state.proposals
    \/ l.op = "add_circuit" /\ l.id \in DOMAIN st.circuit_state.circuits
    \/ l.op \in {"update_circuit", "remove_circuit", "list_services"}
          /\ l.id \notin DOMAIN st.circuit_state.circuits

\* The files the operation `op` writes.
FilesOf(op) ==
    IF op \in {"add_proposal", "update_proposal", "remove_proposal"} THEN {"proposal"}
    ELSE IF op \in {"add_circuit", "update_circuit", "remove_circuit"} THEN {"circuit"}
    ELSE IF op = "upgrade_proposal_to_circuit" THEN {"circuit", "proposal"}
    ELSE {}

\* C17: a call made with the lock poisoned returns a StorageError; with the
\* lock not poisoned, a call whose precondition is violated (add of a stored
\* id, update, remove or upgrade of an id not stored, list_services of an
\* unknown circuit) returns an OperationError, and a call whose precondition
\* holds returns a StorageError exactly when one of its files was not
\* created or was left without its document and newline, and Ok otherwise.
C17_ErrorKindsDistinguishable ==
    [][ nops' = nops + 1 =>
          /\ poisoned => last'.result = "StorageError"
          /\ (~poisoned /\ PreconditionViolated(last', state)) =>
                last'.result = "OperationError"
          /\ (~poisoned /\ ~PreconditionViolated(last', state)) =>
                LET written ==
                        /\ last'.wrote = FilesOf(last'.op)
                        /\ "circuit" \in FilesOf(last'.op) => Len(circuit_file') = 2
                        /\ "proposal" \in FilesOf(last'.op) => Len(proposal_file') = 2
                IN last'.result = IF written THEN "Ok" ELSE "StorageError"
      ]_vars

\* C17 witness: remove_circuit of a stored circuit has returned a
\* StorageError because the circuit file could not be created.
C17_Witness ==
    /\ last.op = "remove_circuit"
    /\ last.result = "StorageError"
    /\ last.wrote = {}
    /\ ~poisoned
    /\ ~contains_key(state.circuit_state.circuits, last.id)

(***************************************************************************)
(* The read operations.                                                    *)
(***************************************************************************)
\* The table a fetch operation looks its id up in.
TableOf(op) ==
    CASE op = "fetch_circuit" -> state.circuit_state.circuits
      [] op = "fetch_proposal" -> state.proposal_state.proposals
      [] op = "fetch_node" -> state.circuit_state.nodes
      [] op = "fetch_service" -> state.service_directory

FetchOps == {"fetch_circuit", "fetch_proposal", "fetch_node", "fetch_service"}

\* C18: with the lock not poisoned, fetch_circuit, fetch_proposal,
\* fetch_node and fetch_service return Ok: the empty result for an id that
\* is not a key of the table, the value stored under the id otherwise.
C18_FetchAbsentIsEmpty ==
    (last.op \in FetchOps /\ (~poisoned \/ last.result = "Ok")) =>
        /\ last.result = "Ok"
        /\ last.id \notin DOMAIN TableOf(last.op) => ~last.value.some
        /\ last.id \in DOMAIN TableOf(last.op) =>
              /\ last.value.some
              /\ last.value.value = TableOf(last.op)[last.id]

\* C18 witness: fetch_service has returned the empty result for a service id
\* of a circuit that is not stored while the same service id is stored for
\* another circuit.
C18_Witness ==
    /\ last.op = "fetch_service"
    /\ last.result = "Ok"
    /\ ~last.value.some
    /\ ~poisoned
    /\ \E circuit_id \in CircuitIds :
          contains_key(state.service_directory, ServiceId(last.id[1], circuit_id))

\* The entries of a list result.
Listed(value) == {value[i] : i \in DOMAIN value}

\* C19: list_circuits(preds) and list_proposals(preds) return every stored
\* entry that satisfies each predicate of preds, once, and nothing else; so
\* the empty list returns every entry, and two predicates return the
\* entries that each of the two returns alone.
C19_ListFiltersByConjunction ==
    /\ Succeeded("list_circuits") =>
          LET stored == {state.circuit_state.circuits[id] :
                            id \in DOMAIN state.circuit_state.circuits}
          IN /\ Listed(last.value) =
                   {c \in stored : \A i \in DOMAIN last.arg :
                                      apply_to_circuit(last.arg[i], c)}
             /\ Cardinality(Listed(last.value)) = Len(last.value)
             /\ last.arg = <<>> => Listed(last.value) = stored
             /\ Len(last.arg) = 2 =>
                   Listed(last.value) =
                       Listed(list_circuits(state, <<last.arg[1]>>)) \cap
                       Listed(list_circuits(state, <<last.arg[2]>>))
    /\ Succeeded("list_proposals") =>
          LET stored == {state.proposal_state.proposals[id] :
                            id \in DOMAIN state.proposal_state.proposals}
          IN /\ Listed(last.value) =
                   {p \in stored : \A i \in DOMAIN last.arg :
                                      apply_to_proposals(last.arg[i], p)}
             /\ Cardinality(Listed(last.value)) = Len(last.value)
             /\ last.arg = <<>> => Listed(last.value) = stored
             /\ Len(last.arg) = 2 =>
                   Listed(last.value) =
                       Listed(list_proposals(state, <<last.arg[1]>>)) \cap
                       Listed(list_proposals(state, <<last.arg[2]>>))

\* C19 witness: list_proposals with two predicates has returned one of two
\* stored proposals, each predicate alone accepting a proposal.
C19_Witness ==
    /\ Succeeded("list_proposals")
    /\ Len(last.arg) = 2
    /\ Len(last.value) = 1
    /\ Cardinality(DOMAIN state.proposal_state.proposals) = 2
    /\ list_proposals(state, <<last.arg[1]>>) # <<>>
    /\ list_proposals(state, <<last.arg[2]>>) # <<>>

\* C20: the entries returned by list_circuits and list_proposals are in
\* ascending order of id, whatever the order of the calls that stored them.
C20_ListsAscendingById ==
    /\ Succeeded("list_circuits") =>
          \A i, j \in DOMAIN last.value :
              i < j => Rank(last.value[i].id) < Rank(last.value[j].id)
    /\ Succeeded("list_proposals") =>
          \A i, j \in DOMAIN last.value :
              i < j => Rank(last.value[i].circuit_id) < Rank(last.value[j].circuit_id)

\* C20 witness: list_circuits has returned the two stored circuits, which
\* differ in more than their id; the runs that reach this state add them in
\* either order.
C20_Witness ==
    /\ Succeeded("list_circuits")
    /\ Len(last.value) = 2
    /\ last.value[2].members = <<"n2">>
    /\ last.value[1].members = <<"n1">>

\* C21: list_nodes returns every stored node exactly once, in ascending
\* order of node id.
C21_ListNodesAllAscending ==
    Succeeded("list_nodes") =>
        /\ \A id \in DOMAIN state.circuit_state.nodes :
              Cardinality({i \in DOMAIN last.value :
                              last.value[i] = state.circuit_state.nodes[id]}) = 1
        /\ Len(last.value) = Cardinality(DOMAIN state.circuit_state.nodes)
        /\ \A i, j \in DOMAIN last.value :
              i < j => Rank(last.value[i].id) < Rank(last.value[j].id)

\* C21 witness: list_nodes has returned two nodes.
C21_Witness ==
    /\ Succeeded("list_nodes")
    /\ Len(last.value) = 2
    /\ last.value[1].id = "n1"
    /\ last.value[2].id = "n2"

\* C22: list_services(circuit_id) returns an OperationError when no circuit
\* is stored under circuit_id, and otherwise the services of the stored
\* circuit's roster, in roster order.
C22_ListServicesInRosterOrder ==
    last.op = "list_services" =>
        IF last.id \in DOMAIN state.circuit_state.circuits
        THEN /\ last.result = "Ok"
             /\ last.value = state.circuit_state.circuits[last.id].roster
        ELSE last.result = "OperationError"

\* C22 witness: list_services has returned a roster whose service ids are
\* not in ascending order.
C22_Witness ==
    /\ Succeeded("list_services")
    /\ Len(last.value) = 2
    /\ last.value[1].service_id = "b"
    /\ last.value[2].service_id = "a"

\* The nodes a call supplies: the `nodes` argument of add_circuit, the
\* members of the proposed circuit for upgrade_proposal_to_circuit.
Supplied(l) ==
    IF l.op = "add_circuit"
    THEN [i \in DOMAIN l.nodes |->
             [id |-> l.nodes[i].id, endpoints |-> l.nodes[i].endpoints]]
    ELSE [i \in DOMAIN l.arg.circuit.members |->
             [id |-> l.arg.circuit.members[i].node_id,
              endpoints |-> l.arg.circuit.members[i].endpoints]]

\* C23: add_circuit and upgrade_proposal_to_circuit leave every stored node
\* record as it was, also when a supplied node has the same id and other
\* endpoints, and for every supplied id that was not stored they store the
\* first supplied node with that id; they store no other node.
C23_NodesFirstWriterWins ==
    [][ (last'.op \in {"add_circuit", "upgrade_proposal_to_circuit"}
           /\ last'.result = "Ok" /\ nops' = nops + 1) =>
          LET before == state.circuit_state.nodes
              after == state'.circuit_state.nodes
              supplied == Supplied(last')
          IN /\ \A id \in DOMAIN before :
                   id \in DOMAIN after /\ after[id] = before[id]
             /\ DOMAIN after =
                   DOMAIN before \cup {supplied[i].id : i \in DOMAIN supplied}
             /\ \A id \in DOMAIN after \ DOMAIN before :
                   \E i \in DOMAIN supplied :
                       /\ supplied[i].id = id
                       /\ \A j \in DOMAIN supplied : supplied[j].id = id => i <= j
                       /\ after[id].endpoints = supplied[i].endpoints
      ]_vars

\* C23 witness: add_circuit has succeeded with a node n1 of endpoint e2
\* among its nodes while the stored node n1 has endpoint e1.
C23_Witness ==
    /\ Succeeded("add_circuit")
    /\ \E i \in DOMAIN last.nodes :
          last.nodes[i].id = "n1" /\ last.nodes[i].endpoints = <<"e2">>
    /\ state.circuit_state.nodes["n1"].endpoints = <<"e1">>

\* C24: no step removes a node id from the node table, and a successful
\* remove_circuit leaves the node table as it was and writes every node
\* record, those of the removed circuit's members included, to the circuit
\* file.
C24_NodesNeverRemoved ==
    [][ /\ DOMAIN state.circuit_state.nodes \subseteq DOMAIN state'.circuit_state.nodes
        /\ (last'.op = "remove_circuit" /\ last'.result = "Ok" /\ nops' = nops + 1) =>
              /\ state'.circuit_state.nodes = state.circuit_state.nodes
              /\ circuit_file'[1].yaml.nodes = state.circuit_state.nodes
      ]_vars

\* C24 witness: remove_circuit has removed the last circuit and the node
\* table and the circuit file hold two nodes.
C24_Witness ==
    /\ Succeeded("remove_circuit")
    /\ DOMAIN state.circuit_state.circuits = {}
    /\ DOMAIN state.circuit_state.nodes = {"n1", "n2"}
    /\ DOMAIN circuit_file[1].yaml.nodes = {"n1", "n2"}

\* C27: a successful add_proposal, update_proposal or remove_proposal
\* writes the proposal file only and leaves the circuit file as it was; a
\* successful add_circuit, update_circuit or remove_circuit writes the
\* circuit file only and leaves the proposal file as it was; a successful
\* upgrade_proposal_to_circuit writes both files, and no other call does.
C27_OnlyUpgradeWritesBothFiles ==
    [][ nops' = nops + 1 =>
          /\ last'.result = "Ok" => last'.wrote = FilesOf(last'.op)
          /\ last'.result # "Ok" => last'.wrote = {}
          /\ "circuit" \notin last'.wrote => circuit_file' = circuit_file
          /\ "proposal" \notin last'.wrote => proposal_file' = proposal_file
          /\ last'.wrote = {"circuit", "proposal"} =>
                last'.op = "upgrade_proposal_to_circuit"
      ]_vars

\* C27 witness: upgrade_proposal_to_circuit has written both files, and
\* the circuit file holds a circuit while the proposal file holds none.
C27_Witness ==
    /\ Succeeded("upgrade_proposal_to_circuit")
    /\ last.wrote = {"circuit", "proposal"}
    /\ DOMAIN circuit_file[1].yaml.circuits # {}
    /\ DOMAIN proposal_file[1].yaml.proposals = {}

\* C28: converting a Service to its on-disk shape and back yields an equal
\* Service whose argument keys are the keys of the original, each once, and
\* converting a Circuit to its on-disk shape and back yields an equal
\* Circuit; stated for every circuit that add_circuit or update_circuit has
\* stored.
C28_AdapterRoundTrips ==
    (Succeeded("add_circuit") \/ Succeeded("update_circuit")) =>
        /\ CircuitFromYamlCircuit(YamlCircuitFromCircuit(last.arg)) = last.arg
        /\ \A i \in DOMAIN last.arg.roster :
              LET s == last.arg.roster[i]
                  back == ServiceFromYamlService(YamlServiceFromService(s))
              IN /\ back = s
                 /\ {back.arguments[j][1] : j \in DOMAIN back.arguments} =
                        {s.arguments[j][1] : j \in DOMAIN s.arguments}
                 /\ \A j, k \in DOMAIN back.arguments :
                       back.arguments[j][1] = back.arguments[k][1] => j = k

\* C29: a successful update_circuit(c) stores c under c.id and leaves every
\* other circuit as it was; a successful update_proposal(p) stores p under
\* p.circuit_id and leaves every other proposal as it was.
C29_UpdateReplacesOneEntry ==
    [][ /\ (last'.op = "update_circuit" /\ last'.result = "Ok" /\ nops' = nops + 1) =>
              LET c == last'.arg
              IN /\ c.id \in DOMAIN state.circuit_state.circuits
                 /\ fetch_circuit(state', c.id) = Some(c)
                 /\ DOMAIN state'.circuit_state.circuits =
                        DOMAIN state.circuit_state.circuits
                 /\ \A id \in DOMAIN state.circuit_state.circuits \ {c.id} :
                       state'.circuit_state.circuits[id] =
                           state.circuit_state.circuits[id]
        /\ (last'.op = "update_proposal" /\ last'.result = "Ok" /\ nops' = nops + 1) =>
              LET p == last'.arg
              IN /\ p.circuit_id \in DOMAIN state.proposal_state.proposals
                 /\ fetch_proposal(state', p.circuit_id) = Some(p)
                 /\ DOMAIN state'.proposal_state.proposals =
                        DOMAIN state.proposal_state.proposals
                 /\ \A id \in DOMAIN state.proposal_state.proposals \ {p.circuit_id} :
                       state'.proposal_state.proposals[id] =
                           state.proposal_state.proposals[id]
      ]_vars

\* C29 witness: update_circuit has replaced one of two stored circuits by a
\* circuit with another roster.
C29_Witness ==
    /\ Succeeded("update_circuit")
    /\ Cardinality(DOMAIN state.circuit_state.circuits) = 2
    /\ Len(last.arg.roster) = 2
    /\ \E id \in DOMAIN state.circuit_state.circuits :
          Len(state.circuit_state.circuits[id].roster) < 2

\* C30: a read operation leaves the four tables, both files and the set of
\* files as they were, and what it returns is a copy: when the caller
\* changes a circuit it was given, the tables stay as they were and the
\* next fetch_circuit of that id returns the stored circuit, not the
\* changed one.
C30_ReadsChangeNothing ==
    [][ /\ (last'.op \in ReadOps /\ nops' = nops + 1) =>
              /\ Tables' = Tables
              /\ circuit_file' = circuit_file
              /\ proposal_file' = proposal_file
              /\ exists' = exists
        /\ last'.op = "caller_changes_circuit" =>
              /\ Tables' = Tables
              /\ fetch_circuit(state', last'.id) # last'.value
        /\ (last.op = "caller_changes_circuit" /\ last'.op = "fetch_circuit"
               /\ last'.id = last.id) =>
              /\ last'.value # last.value
              /\ last'.value = Some(state.circuit_state.circuits[last.id])
      ]_vars

\* C30 witness: the caller has changed the circuit that fetch_circuit
\* returned, and the store still holds the circuit with its members.
C30_Witness ==
    /\ last.op = "caller_changes_circuit"
    /\ last.value.value.members = <<>>
    /\ fetch_circuit(state, last.id).some
    /\ fetch_circuit(state, last.id).value.members # <<>>

(***************************************************************************)
(* Runs in which the calls of several threads interleave.  A call is a     *)
(* sequence of steps: a mutation takes the state lock, changes the tables  *)
(* one insert or remove at a time, drops the guard at the end of its       *)
(* block, then calls write_circuit_state, write_proposal_state or          *)
(* write_state, which takes the state lock again and holds its guard until *)
(* it returns; a read takes the lock, clones and drops the guard in one    *)
(* statement.  `nops` counts the calls that have returned.                 *)
(***************************************************************************)
MaxThreadOps == 3

Call(op, id, arg, nodes) == [op |-> op, id |-> id, arg |-> arg, nodes |-> nodes]

\* The calls the threads make, one set for each operation.  `id` is the key
\* the call addresses and `arg` the value it passes, None when it passes
\* nothing but the key; the lists are called with no predicate.
ThreadCalls ==
    << {Call("add_proposal", p.circuit_id, p, <<>>) :
           p \in {q \in Proposals : q.circuit_id = "c1"}},
       {Call("update_proposal", p.circuit_id, p, <<>>) :
           p \in {q \in Proposals : q.circuit_id = "c2" /\ q.circuit.circuit_id = "c1"}},
       {Call("remove_proposal", "c2", None, <<>>)},
       {Call("add_circuit", c.id, c, nodes) :
           c \in {d \in Circuits : d.id = "c2" /\ d.roster # <<>>},
           nodes \in {n \in NodeLists : Len(n) = 2}},
       {Call("update_circuit", c.id, c, <<>>) :
           c \in {d \in Circuits : d.id = "c1" /\ d.roster = <<>>}},
       {Call("remove_circuit", "c1", None, <<>>)},
       {Call("upgrade_proposal_to_circuit", "c2", None, <<>>)},
       {Call("fetch_proposal", "c2", None, <<>>)},
       {Call("list_proposals", "-", None, <<>>)},
       {Call("fetch_circuit", "c2", None, <<>>)},
       {Call("list_circuits", "-", None, <<>>)},
       {Call("fetch_node", "n2", None, <<>>)},
       {Call("list_nodes", "-", None, <<>>)},
       {Call("fetch_service", "c2", [service_id |-> "a"], <<>>)},
       {Call("list_services", "c2", None, <<>>)} >>

\* The iterator a list operation returns, with the items it yields.
Listing(items) == [items |-> items]

\* What a read operation returns from the tables it sees.
answer(st, c) ==
    CASE c.op = "fetch_proposal" ->
            [result |-> "Ok", value |-> fetch_proposal(st, c.id)]
      [] c.op = "list_proposals" ->
            [result |-> "Ok", value |-> Listing(list_proposals(st, <<>>))]
      [] c.op = "fetch_circuit" ->
            [result |-> "Ok", value |-> fetch_circuit(st, c.id)]
      [] c.op = "list_circuits" ->
            [result |-> "Ok", value |-> Listing(list_circuits(st, <<>>))]
      [] c.op = "fetch_node" ->
            [result |-> "Ok", value |-> fetch_node(st, c.id)]
      [] c.op = "list_nodes" ->
            [result |-> "Ok", value |-> Listing(list_nodes(st))]
      [] c.op = "fetch_service" ->
            [result |-> "Ok", value |-> fetch_service(st, ServiceId(c.arg.service_id, c.id))]
      [] c.op = "list_services" ->
            [result |-> list_services(st, c.id).result,
             value |-> Listing(list_services(st, c.id).value)]

\* The threads that are in a call.
InFlight == {t \in Threads : threads[t].pc # "idle"}

\* Thread t is at the step pc of the operation op.
AtStep(t, pc, op) == threads[t].pc = pc /\ threads[t].op = op

\* Thread t moves to the step pc.
Goto(t, pc) == [threads EXCEPT ![t].pc = pc]

\* The call of thread t returns.
returns(t, result, wrote) ==
    /\ threads' = [threads EXCEPT ![t] = Idle]
    /\ nops' = nops + 1
    /\ last' = Returned(threads[t].op, threads[t].id, threads[t].arg,
                        threads[t].nodes, result, wrote)

\* A thread calls an operation of the store.
call(t) ==
    /\ threads[t].pc = "idle"
    /\ nops + Cardinality(InFlight) < MaxThreadOps
    /\ \E i \in DOMAIN ThreadCalls : \E c \in ThreadCalls[i] :
          threads' = [threads EXCEPT ![t] =
                         [pc |-> "lock", op |-> c.op, id |-> c.id, arg |-> c.arg,
                          nodes |-> c.nodes]]
    /\ UNCHANGED <<state, circuit_file, proposal_file, exists, poisoned, last,
                   nops, lock>>

\* Mutant of lock_state: the block is entered while another thread is in
\* its block.
lock_state_unguarded(t) ==
    /\ threads[t].pc = "lock"
    /\ threads[t].op \in MutatingOps
    /\ lock' = t
    /\ threads' = Goto(t, "locked")
    /\ UNCHANGED <<state, circuit_file, proposal_file, exists, poisoned, last, nops>>

\* self.state.lock() at the head of a mutation: the thread waits until the
\* lock is free; a poisoned lock makes the call return a StorageError.
lock_state(t) ==
    /\ threads[t].pc = "lock"
    /\ threads[t].op \in MutatingOps
    /\ lock = "free"
    /\ IF poisoned
       THEN /\ returns(t, "StorageError", {})
            /\ UNCHANGED lock
       ELSE /\ lock' = t
            /\ threads' = Goto(t, "locked")
            /\ UNCHANGED <<last, nops>>
    /\ UNCHANGED <<state, circuit_file, proposal_file, exists, poisoned>>

\* Mutant of mutate: the call returns without writing the file.
mutate_unpersisted(t) ==
    /\ threads[t].pc = "locked"
    /\ threads[t].op \in MutatingOps \ {"add_circuit", "upgrade_proposal_to_circuit"}
    /\ lock = t
    /\ LET c == threads[t]
           r == CASE c.op = "add_proposal" -> add_proposal_locked(state, c.arg)
                  [] c.op = "update_proposal" -> update_proposal_locked(state, c.arg)
                  [] c.op = "remove_proposal" -> remove_proposal_locked(state, c.id)
                  [] c.op = "update_circuit" -> update_circuit_locked(state, c.arg)
                  [] c.op = "remove_circuit" -> remove_circuit_locked(state, c.id)
       IN /\ state' = r.state
          /\ lock' = "free"
          /\ returns(t, r.result, {})
    /\ UNCHANGED <<circuit_file, proposal_file, exists, poisoned>>

\* Mutant of mutate: the guard of the block is still alive when the write
\* routine is called.
mutate_keeping_guard(t) ==
    /\ threads[t].pc = "locked"
    /\ threads[t].op \in MutatingOps \ {"add_circuit", "upgrade_proposal_to_circuit"}
    /\ lock = t
    /\ LET c == threads[t]
           r == CASE c.op = "add_proposal" -> add_proposal_locked(state, c.arg)
                  [] c.op = "update_proposal" -> update_proposal_locked(state, c.arg)
                  [] c.op = "remove_proposal" -> remove_proposal_locked(state, c.id)
                  [] c.op = "update_circuit" -> update_circuit_locked(state, c.arg)
                  [] c.op = "remove_circuit" -> remove_circuit_locked(state, c.id)
       IN /\ state' = r.state
          /\ IF r.result = "Ok"
             THEN /\ threads' = Goto(t, "write")
                  /\ UNCHANGED <<lock, last, nops>>
             ELSE /\ lock' = "free"
                  /\ returns(t, r.result, {})
    /\ UNCHANGED <<circuit_file, proposal_file, exists, poisoned>>

\* The locked block of add_proposal, update_proposal, remove_proposal,
\* update_circuit and remove_circuit: the check and one change of a table
\* (remove_circuit removes the services of the roster it took out of the
\* circuit table), then the guard is dropped.
mutate(t) ==
    /\ threads[t].pc = "locked"
    /\ threads[t].op \in MutatingOps \ {"add_circuit", "upgrade_proposal_to_circuit"}
    /\ lock = t
    /\ LET c == threads[t]
           r == CASE c.op = "add_proposal" -> add_proposal_locked(state, c.arg)
                  [] c.op = "update_proposal" -> update_proposal_locked(state, c.arg)
                  [] c.op = "remove_proposal" -> remove_proposal_locked(state, c.id)
                  [] c.op = "update_circuit" -> update_circuit_locked(state, c.arg)
                  [] c.op = "remove_circuit" -> remove_circuit_locked(state, c.id)
       IN /\ state' = r.state
          /\ lock' = "free"
          /\ IF r.result = "Ok"
             THEN /\ threads' = Goto(t, "write")
                  /\ UNCHANGED <<last, nops>>
             ELSE returns(t, r.result, {})
    /\ UNCHANGED <<circuit_file, proposal_file, exists, poisoned>>

\* add_circuit, first step: a stored id makes the call return an
\* OperationError; otherwise the services of the roster are inserted.
add_circuit_insert_services(t) ==
    /\ AtStep(t, "locked", "add_circuit")
    /\ lock = t
    /\ LET circuit == threads[t].arg
       IN IF contains_key(state.circuit_state.circuits, circuit.id)
          THEN /\ lock' = "free"
               /\ returns(t, "OperationError", {})
               /\ UNCHANGED state
          ELSE /\ state' = [state EXCEPT !.service_directory =
                               insert_services(@, circuit.roster, circuit.id)]
               /\ threads' = Goto(t, "insert_nodes")
               /\ UNCHANGED <<lock, last, nops>>
    /\ UNCHANGED <<circuit_file, proposal_file, exists, poisoned>>

\* add_circuit, second step: the nodes not yet stored are inserted.
add_circuit_insert_nodes(t) ==
    /\ AtStep(t, "insert_nodes", "add_circuit")
    /\ lock = t
    /\ state' = [state EXCEPT !.circuit_state.nodes =
                    insert_new_nodes(@, threads[t].nodes)]
    /\ threads' = Goto(t, "insert_circuit")
    /\ UNCHANGED <<circuit_file, proposal_file, exists, poisoned, last, nops, lock>>

\* add_circuit, last step: the circuit is inserted and the guard dropped.
add_circuit_insert_circuit(t) ==
    /\ AtStep(t, "insert_circuit", "add_circuit")
    /\ lock = t
    /\ state' = [state EXCEPT !.circuit_state.circuits =
                    insert(@, threads[t].arg.id, threads[t].arg)]
    /\ lock' = "free"
    /\ threads' = Goto(t, "write")
    /\ UNCHANGED <<circuit_file, proposal_file, exists, poisoned, last, nops>>

\* upgrade_proposal_to_circuit, first step: proposals.remove(circuit_id);
\* None makes the call return an OperationError.
upgrade_remove_proposal(t) ==
    /\ AtStep(t, "locked", "upgrade_proposal_to_circuit")
    /\ lock = t
    /\ LET circuit_id == threads[t].id
       IN IF contains_key(state.proposal_state.proposals, circuit_id)
          THEN /\ state' = [state EXCEPT !.proposal_state.proposals =
                               remove(@, circuit_id)]
               /\ threads' = [threads EXCEPT
                                 ![t].pc = "insert_circuit",
                                 ![t].arg = state.proposal_state.proposals[circuit_id]]
               /\ UNCHANGED <<lock, last, nops>>
          ELSE /\ lock' = "free"
               /\ returns(t, "OperationError", {})
               /\ UNCHANGED state
    /\ UNCHANGED <<circuit_file, proposal_file, exists, poisoned>>

\* upgrade_proposal_to_circuit, second step: the converted circuit is
\* inserted under its own id.
upgrade_insert_circuit(t) ==
    /\ AtStep(t, "insert_circuit", "upgrade_proposal_to_circuit")
    /\ lock = t
    /\ LET circuit == CircuitFromProposed(threads[t].arg.circuit)
       IN state' = [state EXCEPT !.circuit_state.circuits =
                       insert(@, circuit.id, circuit)]
    /\ threads' = Goto(t, "insert_services")
    /\ UNCHANGED <<circuit_file, proposal_file, exists, poisoned, last, nops, lock>>

\* upgrade_proposal_to_circuit, third step: the services of the proposed
\* roster are inserted under the id the call was given.
upgrade_insert_services(t) ==
    /\ AtStep(t, "insert_services", "upgrade_proposal_to_circuit")
    /\ lock = t
    /\ LET services == threads[t].arg.circuit.roster
       IN state' = [state EXCEPT !.service_directory =
                       insert_services(@, [i \in DOMAIN services |->
                                              ServiceFromProposed(services[i])],
                                       threads[t].id)]
    /\ threads' = Goto(t, "insert_nodes")
    /\ UNCHANGED <<circuit_file, proposal_file, exists, poisoned, last, nops, lock>>

\* upgrade_proposal_to_circuit, last step: the members not yet stored are
\* inserted as nodes and the guard is dropped.
upgrade_insert_nodes(t) ==
    /\ AtStep(t, "insert_nodes", "upgrade_proposal_to_circuit")
    /\ lock = t
    /\ LET nodes == threads[t].arg.circuit.members
       IN state' = [state EXCEPT !.circuit_state.nodes =
                       insert_new_nodes(@, [i \in DOMAIN nodes |->
                                               NodeFromProposed(nodes[i])])]
    /\ lock' = "free"
    /\ threads' = Goto(t, "write")
    /\ UNCHANGED <<circuit_file, proposal_file, exists, poisoned, last, nops>>

\* self.state.lock() at the head of write_circuit_state, write_proposal_state
\* and write_state: the guard lives until the function returns.
write_lock(t) ==
    /\ threads[t].pc = "write"
    /\ lock = "free"
    /\ IF poisoned
       THEN /\ returns(t, "StorageError", {})
            /\ UNCHANGED lock
       ELSE /\ lock' = t
            /\ threads' = Goto(t, IF "circuit" \in FilesOf(threads[t].op)
                                  THEN "write_circuit" ELSE "write_proposal")
            /\ UNCHANGED <<last, nops>>
    /\ UNCHANGED <<state, circuit_file, proposal_file, exists, poisoned>>

\* The circuit file is created and written from the tables under the guard;
\* write_circuit_state then returns, write_state goes on to the proposal
\* file.
write_circuit_file(t) ==
    /\ threads[t].pc = "write_circuit"
    /\ lock = t
    /\ circuit_file' = write_circuit_state(state, circuit_file)
    /\ exists' = exists \cup {"circuit"}
    /\ IF threads[t].op = "upgrade_proposal_to_circuit"
       THEN /\ threads' = Goto(t, "write_proposal")
            /\ UNCHANGED <<lock, last, nops>>
       ELSE /\ lock' = "free"
            /\ returns(t, "Ok", {"circuit"})
    /\ UNCHANGED <<state, proposal_file, poisoned>>

\* The proposal file is created and written from the tables under the
\* guard; the function returns and the guard is dropped.
write_proposal_file(t) ==
    /\ threads[t].pc = "write_proposal"
    /\ lock = t
    /\ proposal_file' = write_proposal_state(state, proposal_file)
    /\ exists' = exists \cup {"proposal"}
    /\ lock' = "free"
    /\ returns(t, "Ok", FilesOf(threads[t].op))
    /\ UNCHANGED <<state, circuit_file, poisoned>>

\* Mutant of read: the tables are read without the lock.
read_unlocked(t) ==
    /\ threads[t].pc = "lock"
    /\ threads[t].op \in ReadOps
    /\ LET r == answer(state, threads[t])
       IN last' = Answered(threads[t].op, threads[t].id, threads[t].arg,
                           r.result, r.value)
    /\ threads' = [threads EXCEPT ![t] = Idle]
    /\ nops' = nops + 1
    /\ UNCHANGED <<state, circuit_file, proposal_file, exists, poisoned, lock>>

\* A read operation: lock(), the lookup, the clone and the drop of the
\* guard are one statement, which waits until the lock is free.
read(t) ==
    /\ threads[t].pc = "lock"
    /\ threads[t].op \in ReadOps
    /\ lock = "free"
    /\ threads' = [threads EXCEPT ![t] = Idle]
    /\ nops' = nops + 1
    /\ LET r == answer(state, threads[t])
       IN last' = IF poisoned
                  THEN Answered(threads[t].op, threads[t].id, threads[t].arg,
                                "StorageError", None)
                  ELSE Answered(threads[t].op, threads[t].id, threads[t].arg,
                                r.result, r.value)
    /\ UNCHANGED <<state, circuit_file, proposal_file, exists, poisoned, lock>>

\* The store was constructed on the two files an earlier store had written.
InitThreads ==
    \E st \in StoredStates :
        LET r == new(DiskOf(st, {"circuit", "proposal"}))
        IN /\ state = r.state
           /\ circuit_file = r.circuit
           /\ proposal_file = r.proposal
           /\ exists = r.exists
           /\ poisoned = FALSE
           /\ last = Returned("new", "-", None, <<>>, r.result, r.wrote)
           /\ nops = 0
           /\ Quiescent

NextThreads ==
    \E t \in Threads :
        \/ call(t)
        \/ lock_state(t)
        \/ mutate(t)
        \/ add_circuit_insert_services(t)
        \/ add_circuit_insert_nodes(t)
        \/ add_circuit_insert_circuit(t)
        \/ upgrade_remove_proposal(t)
        \/ upgrade_insert_circuit(t)
        \/ upgrade_insert_services(t)
        \/ upgrade_insert_nodes(t)
        \/ write_lock(t)
        \/ write_circuit_file(t)
        \/ write_proposal_file(t)
        \/ read(t)

SpecThreads == InitThreads /\ [][NextThreads]_vars

\* The next step of the call thread t is in.
Proceed(t) ==
    \/ lock_state(t)
    \/ mutate(t)
    \/ add_circuit_insert_services(t)
    \/ add_circuit_insert_nodes(t)
    \/ add_circuit_insert_circuit(t)
    \/ upgrade_remove_proposal(t)
    \/ upgrade_insert_circuit(t)
    \/ upgrade_insert_services(t)
    \/ upgrade_insert_nodes(t)
    \/ write_lock(t)
    \/ write_circuit_file(t)
    \/ write_proposal_file(t)
    \/ read(t)

\* The step each thread is at; every step of a call changes it.
ThreadPcs == [t \in Threads |-> threads[t].pc]

\* A fair scheduler: a thread whose next step stays possible takes it.  A
\* thread that waits in lock() can take its step while the lock is free.
SpecThreadsFair ==
    InitThreads /\ [][NextThreads]_vars
        /\ \A t \in Threads : WF_ThreadPcs(Proceed(t))

\* Thread t has changed a table in its locked block and has more to change:
\* the proposal of an upgrade is removed and its circuit not yet inserted,
\* the circuit of an upgrade is inserted and its services or nodes are not,
\* or the services of an add_circuit are inserted and its circuit is not.
MidMutation(t) ==
    threads[t].pc \in {"insert_circuit", "insert_services", "insert_nodes"}

\* Thread t completes a read operation in this step.
Reads(t) ==
    /\ threads[t].pc = "lock"
    /\ threads[t].op \in ReadOps
    /\ threads'[t].pc = "idle"

\* C25: a fetch or list operation never reads the tables while another
\* thread is between the first and the last change of its locked block: not
\* while the proposal of an upgrade_proposal_to_circuit is removed and its
\* circuit not yet inserted, and not while the circuit of an add_circuit
\* or upgrade_proposal_to_circuit and its services are not both inserted.
C25_ReadsSeeNoIntermediateState ==
    [][ \A t \in Threads :
          Reads(t) => \A u \in Threads \ {t} : ~MidMutation(u)
      ]_vars

\* C25 witness: a thread waits to read while another thread has removed the
\* proposal of its upgrade and has not yet inserted the circuit.
C25_Witness ==
    \E t, u \in Threads :
        /\ threads[t].pc = "lock"
        /\ threads[t].op \in ReadOps
        /\ AtStep(u, "insert_circuit", "upgrade_proposal_to_circuit")
        /\ ~contains_key(state.proposal_state.proposals, threads[u].id)
        /\ ~contains_key(state.circuit_state.circuits,
                         threads[u].arg.circuit.circuit_id)

\* C26: a thread that writes a file does not hold the state lock, so that a
\* fetch of another thread can take the lock while the file is written.
C26_FileWrittenWithoutLock ==
    \A t \in Threads :
        threads[t].pc \in {"write_circuit", "write_proposal"} =>
            /\ lock # t
            /\ \A u \in Threads \ {t} :
                  (threads[u].pc = "lock" /\ threads[u].op \in FetchOps) =>
                      lock = "free"

\* A file that new() reads on this disk cannot be opened and parsed.
ReadFails(disk) ==
    \/ "circuit" \in disk.exists /\ from_reader(disk.circuit, "circuits").result # "Ok"
    \/ "proposal" \in disk.exists /\ from_reader(disk.proposal, "proposals").result # "Ok"

\* C31: when a file that new() loads cannot be parsed, new() returns an
\* error and no store, and the node, circuit, proposal and service tables
\* of the store under construction are still those of the default state;
\* when every file it loads can be parsed, new() returns a store.
C31_FailedReadAssignsNothing ==
    last.op \in {"new", "restart"} =>
        /\ ReadFails(last.arg.disk) =>
              /\ last.result = "YamlAdminStoreError"
              /\ state = YamlStateDefault
        /\ ~ReadFails(last.arg.disk) => last.result = "Ok"

\* C31 witness: new() has failed on a proposal file that cannot be parsed
\* next to a circuit file that holds a circuit and its nodes.
C31_Witness ==
    /\ last.op = "new"
    /\ last.result = "YamlAdminStoreError"
    /\ from_reader(last.arg.disk.circuit, "circuits").result = "Ok"
    /\ DOMAIN last.arg.disk.circuit[1].yaml.circuits # {}
    /\ DOMAIN last.arg.disk.circuit[1].yaml.nodes # {}
    /\ from_reader(last.arg.disk.proposal, "proposals").result # "Ok"

\* The node table, the circuit table and the service directory.
CircuitTables ==
    <<state.circuit_state.nodes, state.circuit_state.circuits, state.service_directory>>

\* C32: add_proposal, update_proposal and remove_proposal leave the node
\* table, the circuit table and the service directory unchanged;
\* add_circuit, update_circuit and remove_circuit leave the proposal table
\* unchanged; a call that changes the proposal table and one of the other
\* three is upgrade_proposal_to_circuit.
C32_CollectionsIndependent ==
    [][ nops' = nops + 1 =>
          /\ last'.op \in {"add_proposal", "update_proposal", "remove_proposal"} =>
                CircuitTables' = CircuitTables
          /\ last'.op \in {"add_circuit", "update_circuit", "remove_circuit"} =>
                state'.proposal_state = state.proposal_state
          /\ (CircuitTables' # CircuitTables
                /\ state'.proposal_state # state.proposal_state) =>
                last'.op = "upgrade_proposal_to_circuit"
      ]_vars

\* C32 witness: remove_proposal has removed the proposal of an id under
\* which a circuit is stored, with nodes and services in the tables.
C32_Witness ==
    /\ Succeeded("remove_proposal")
    /\ contains_key(state.circuit_state.circuits, last.id)
    /\ DOMAIN state.circuit_state.nodes # {}
    /\ DOMAIN state.service_directory # {}

\* C36: every entry of the circuit table is stored under its own id and
\* every entry of the proposal table under its own circuit_id, so
\* fetch_circuit(k) returns no circuit of another id and fetch_proposal(k)
\* no proposal of another circuit_id.
C36_EntriesKeyedByOwnId ==
    /\ \A k \in DOMAIN state.circuit_state.circuits :
          state.circuit_state.circuits[k].id = k
    /\ \A k \in DOMAIN state.proposal_state.proposals :
          state.proposal_state.proposals[k].circuit_id = k
    /\ \A k \in CircuitIds :
          /\ fetch_circuit(state, k).some => fetch_circuit(state, k).value.id = k
          /\ fetch_proposal(state, k).some =>
                fetch_proposal(state, k).value.circuit_id = k

\* C36 witness: upgrade_proposal_to_circuit has stored the circuit of a
\* proposal whose proposed circuit has another id than the proposal, next
\* to a proposal and a circuit of the other id.
C36_Witness ==
    /\ Succeeded("upgrade_proposal_to_circuit")
    /\ last.arg.circuit.circuit_id # last.id
    /\ contains_key(state.circuit_state.circuits, last.arg.circuit.circuit_id)
    /\ DOMAIN state.proposal_state.proposals # {}

\* C37: with the lock not poisoned, upgrade_proposal_to_circuit(id) returns
\* Ok whenever a proposal is stored under id, also when a circuit of the
\* proposed circuit's id is stored; afterwards the circuit table holds,
\* under that id, the circuit converted from the proposal.
C37_UpgradeReplacesStoredCircuit ==
    [][ (last'.op = "upgrade_proposal_to_circuit" /\ nops' = nops + 1 /\ ~poisoned
           /\ contains_key(state.proposal_state.proposals, last'.id)) =>
              LET proposal == state.proposal_state.proposals[last'.id]
                  circuit == CircuitFromProposed(proposal.circuit)
              IN /\ last'.result = "Ok"
                 /\ fetch_circuit(state', circuit.id) = Some(circuit)
                 /\ DOMAIN state'.circuit_state.circuits =
                        DOMAIN state.circuit_state.circuits \cup {circuit.id}
      ]_vars

\* C37 witness: the third call of the run, upgrade_proposal_to_circuit, has
\* succeeded for a proposed circuit c1 whose roster has no service b, while
\* the service directory holds service b of circuit c1: add_circuit had
\* stored a circuit c1 with that service, and the upgrade has replaced it.
C37_Witness ==
    /\ Succeeded("upgrade_proposal_to_circuit")
    /\ nops = 3
    /\ last.id = "c1"
    /\ last.arg.circuit.circuit_id = "c1"
    /\ contains_key(state.service_directory, ServiceId("b", "c1"))
    /\ state.circuit_state.circuits["c1"] = CircuitFromProposed(last.arg.circuit)
    /\ \A i \in DOMAIN state.circuit_state.circuits["c1"].roster :
          state.circuit_state.circuits["c1"].roster[i].service_id # "b"

\* The file holds a document whose table `field` has the key id.
InFile(file, field, id) ==
    /\ Len(file) >= 1
    /\ field \in DOMAIN file[1].yaml
    /\ id \in DOMAIN file[1].yaml[field]

\* C35: when upgrade_proposal_to_circuit(id) has consumed the proposal
\* stored under id, then at whatever point its two writes end (the circuit
\* file's File::create, write_all or writeln!, the proposal file's, or
\* none) the proposal file holds a proposal under id or the circuit file
\* holds a circuit under id.
C35_UpgradedIdInOneFile ==
    [][ (last'.op = "upgrade_proposal_to_circuit" /\ nops' = nops + 1 /\ ~poisoned
           /\ contains_key(state.proposal_state.proposals, last'.id)) =>
              \/ InFile(proposal_file', "proposals", last'.id)
              \/ InFile(circuit_file', "circuits", last'.id)
      ]_vars

\* C33: when every call of every thread has returned, the circuit file is
\* the serialization of the node and circuit tables and the proposal file
\* the serialization of the proposal table.
C33_FilesCurrentAtQuiescence ==
    Quiescent =>
        /\ circuit_file = write_circuit_state(state, <<>>)
        /\ proposal_file = write_proposal_state(state, <<>>)

\* C33 witness: two calls or more have returned and no call is running; the
\* tables hold a proposal c1 and a circuit c2, which the store did not hold
\* when the run began.
C33_Witness ==
    /\ Quiescent
    /\ nops >= 2
    /\ contains_key(state.proposal_state.proposals, "c1")
    /\ contains_key(state.circuit_state.circuits, "c2")

\* Threads t and u are both in a call of add_circuit, or both in a call of
\* add_proposal, with the same id.
SameAdd(t, u) ==
    /\ t # u
    /\ threads[t].pc # "idle"
    /\ threads[u].pc # "idle"
    /\ threads[t].op \in {"add_circuit", "add_proposal"}
    /\ threads[u].op = threads[t].op
    /\ threads[u].id = threads[t].id

\* The add of thread t has passed its uniqueness check.
Passed(t) ==
    threads[t].pc \in {"insert_nodes", "insert_circuit", "write", "write_circuit",
                       "write_proposal"}

\* The add of thread t has inserted its value.
Inserted(t) == threads[t].pc \in {"write", "write_circuit", "write_proposal"}

\* The table that the add of thread t inserts into.
AddTable(t) ==
    IF threads[t].op = "add_circuit" THEN state.circuit_state.circuits
    ELSE state.proposal_state.proposals

\* C34: of two threads that are in add_circuit, or in add_proposal, with
\* the same id at the same time, at most one passes the uniqueness check,
\* and the other call returns an OperationError; when the two calls are the
\* first of the run, the table holds under the id the value of the call
\* that passed, from its insert until the other call has returned.  A
\* call passes the check exactly when the table does not hold the id as
\* the call makes the check.
C34_OneConcurrentAddPasses ==
    [][ \A t, u \in Threads :
          /\ (threads[t].pc = "locked" /\ threads'[t].pc # "locked"
                /\ threads[t].op \in {"add_circuit", "add_proposal"}) =>
                (contains_key(AddTable(t), threads[t].id) <=> threads'[t].pc = "idle")
          /\ SameAdd(t, u) =>
              /\ ~(Passed(t) /\ Passed(u))
              /\ (Passed(t) /\ threads'[u].pc = "idle") =>
                    /\ last'.op = threads[u].op
                    /\ last'.id = threads[u].id
                    /\ last'.result = "OperationError"
              /\ (nops = 0 /\ Inserted(t)) =>
                    /\ contains_key(AddTable(t), threads[t].id)
                    /\ AddTable(t)[threads[t].id] = threads[t].arg
                    /\ (state'.circuit_state.circuits = state.circuit_state.circuits
                          /\ state'.proposal_state = state.proposal_state)
      ]_vars

\* C34 witness: add_circuit of one thread has returned an OperationError
\* while the add_circuit of the other thread, called with the same id c2
\* and another circuit, has inserted its circuit and not yet returned; the
\* store held no circuit c2 when the run began.
C34_Witness ==
    \E t \in Threads :
        /\ last.op = "add_circuit"
        /\ last.result = "OperationError"
        /\ threads[t].op = "add_circuit"
        /\ threads[t].id = last.id
        /\ Inserted(t)
        /\ threads[t].arg # last.arg
        /\ state.circuit_state.circuits[last.id] = threads[t].arg
        /\ nops = 1

\* C38: a thread that is about to take the state lock, at the head of its
\* operation or at the head of its write routine, does not hold it; and
\* with a fair scheduler every call that a thread has made returns.
C38_NoSelfDeadlock ==
    /\ [](\A t \in Threads : threads[t].pc \in {"lock", "write"} => lock # t)
    /\ \A t \in Threads : (threads[t].pc # "idle") ~> (threads[t].pc = "idle")

\* C38 witness: a thread has released the lock after its in-memory change
\* and is about to take it again in its write routine, while the other
\* thread holds the lock.
C38_Witness ==
    \E t, u \in Threads :
        /\ t # u
        /\ threads[t].pc = "write"
        /\ lock = u
        /\ threads[u].pc # "idle"

====
